---- MODULE Spec2Model ----
(***************************************************************************)
(* Model of the htag2 reactive tag tree (src/htag/core.py) and of the      *)
(* reconciliation engine of the App root (src/htag/server.py).             *)
(*                                                                         *)
(* Objects are numbered: App is the session root, AppTags are tags built   *)
(* by application code, FreshTags are the objects a reactive producer      *)
(* builds at render time (an unreferenced one is freed and its number is   *)
(* reused, as CPython reuses id()).  A child of a tag is a number too: a   *)
(* tag, a producer (pText ...) or the literal text Text.                   *)
(***************************************************************************)
EXTENDS Integers, Sequences, FiniteSets, TLC

\* ------------------------------------------------------------------ bounds
MaxOps == 3          \* number of mutating calls made by application code
MaxShareOps == 5     \* the same, for a program that shares one tag
MaxAttrOps == 3      \* the same, for a program that edits attributes
MaxStateOps == 4     \* the same, for a program built around the State cell
MaxSessionOps == 4   \* calls made by the application and requests of browsers
MaxScriptOps == 4    \* tree edits, call_js calls and connections
MaxAbortOps == 7     \* the same, for a program one of whose passes fails
MaxDebugOps == 5     \* the same, with the debug flag switched
MaxPruneOps == 5     \* connections, lost connections and script calls
MaxExitOps == 5      \* connections and disconnections of two sessions
MaxCancelOps == 5    \* connections, disconnections and one event
MaxOverlapOps == 6   \* bindings, connections and two events
MaxStaticsOps == 5   \* fragments declared, tags attached, one connection
MaxAnswerOps == 4    \* a binding, a raising producer, a connection, an event
MaxWriteOps == 5     \* tree edits and assignments to the cell
MaxCycleOps == 4     \* tags added to whatever tag, removed, added again
MaxRaceOps == 4      \* the WebApp is built and three requests arrive
MaxIsolationOps == 5\* edits, connections and events of two sessions
MaxInputOps == 5     \* tree edits, connections and events carrying a value
MaxEventOps == 4     \* tree edits, bindings, connections and inbound events

\* ----------------------------------------------------------------- objects
App == 0                       \* the Tag.App instance, root of the session
AppTags == {1, 2}              \* 1: Tag.div(), 2: Tag.input()
Keep == 2                      \* the tag the producer pKeep returns
FreshTags == {3, 4, 5}         \* Tag.span("x") built inside a producer
App2 == 6                      \* the root of a second session (WebApp given the class)
Roots == {App, App2}
Nodes == Roots \cup AppTags \cup FreshTags
None == -1                     \* Python None
Holders == {App, 1}            \* tags application code adds children to

pText  == 10                   \* lambda: f"Count: {counter.value}"
pFresh == 11                   \* lambda: Comp(cell.value)      (a new tag)
pKeep  == 12                   \* lambda: keep                  (the same tag)
pRaise == 13                   \* def crashing_render(): raise TypeError
pNest  == 14                   \* lambda: f"{Tag.span(lambda: c.value)}{c.value}"
Producers == {pText, pFresh, pKeep, pRaise, pNest}
Text == 20                     \* a literal string child or attribute value
\* what application code adds
Items == AppTags \cup {pText, pFresh, pKeep, pRaise}

IsTag(i) == i \in Nodes
IsFn(i) == i \in Producers

TagName == [n \in Nodes |-> IF n \in Roots THEN "body"
                            ELSE IF n = 1 THEN "div"
                            ELSE IF n = 2 THEN "input" ELSE "span"]
VOID_ELEMENTS == {"area", "base", "br", "col", "embed", "hr", "img", "input",
                  "link", "meta", "param", "source", "track", "wbr"}
InputTags == {"input", "textarea", "select"}
ClassNames == {"a"}
Websockets == {"ws1", "ws2"}   \* WebSocket connections a browser may open
Queues == {"sse1"}             \* SSE streams a browser may open
Transports == Websockets \cup Queues
Sids == {"s1", "s2"}           \* values of the htag_sid cookie
Threads == {"t1", "t2"}        \* threads that serve requests
Generic == "Internal Server Error"
Unset == "none"                \* Python None where the other values are names
Values == {0, 1}               \* values a State cell takes
\* the callbacks an application binds to an event: a function returning a
\* value, one returning the event's target, one raising, a generator and an
\* async generator yielding GenYields times, a generator raising after its
\* first yield
Callbacks == {"value", "node", "raise", "gen", "agen", "genraise"}
GenYields == 2
Result == 21                   \* "result", "final": what a callback returns
True == 30                     \* the JSON value true
Cids == {None, 1}              \* msg["data"].get("callback_id")

VARIABLES
  childs,              \* GTag.childs: sequence of items
  parent,              \* GTag.parent: a tag or None
  dirty,               \* GTag.__dirty
  rendered_callables,  \* GTag.__rendered_callables: sequence of <<producer, tags>>
  attrs,               \* GTag.__attrs: class list, title, injected oninput
  events,              \* GTag.__events: set of bound event names
  js_calls,            \* GTag.__js_calls
  value,               \* State._value
  observers,           \* State._observers (weak set of tags)
  current_eval,        \* _ctx.current_eval
  mounts,              \* number of on_mount calls received by each tag
  unmounts,            \* number of on_unmount calls received by each tag
  fuel,                \* mutating calls application code may still make
  last,                \* the last operation and what it reported
  reads,               \* reads of State.value made by the last operation
  callbacks,           \* GTag.__events: the callback bound to "click"
  queued,              \* number of call_js calls made so far
  debug,               \* App.debug
  websockets,          \* App.websockets
  sse_queues,          \* App.sse_queues
  sent,                \* what each transport was sent, in order
  tag_entity,          \* WebApp.tag_entity: a class or an instance
  instances,           \* WebApp.instances: session id -> App, None if absent
  on_instance,         \* WebApp.on_instance: what the hook gives an instance
  task,                \* the handle_event call in progress, or the last one
  broken,              \* websockets whose send_text raises from now on
  exit_on_disconnect,  \* App.exit_on_disconnect
  browser_cleanup,     \* whether the App was given a _browser_cleanup hook
  handlers,            \* the _handle_disconnect tasks of the App, by position
  exited,              \* whether os._exit was called, and after which hook
  peer,                \* the same fields of the second session's App
  statics,             \* tag.statics: the asset fragments a tag asks for
  sent_statics,        \* App.sent_statics
  initialized,         \* number of on_instance calls each App was given to
  webserver,           \* the Apps whose _webserver back-link is set
  lock,                \* WebApp._lock: the thread holding it, if any
  calls,               \* the _get_instance call of each server thread
  rendering,           \* the reconciliation pass in progress, by position
  writing              \* the State.value assignment in progress in a thread

vars == <<childs, parent, dirty, rendered_callables, attrs, events, js_calls,
          value, observers, current_eval, mounts, unmounts, fuel, last, reads,
          callbacks, queued, debug, websockets, sse_queues, sent, tag_entity,
          instances, on_instance, task, broken, exit_on_disconnect, browser_cleanup,
          handlers, exited, peer, statics, sent_statics, initialized,
          webserver, lock, calls, rendering, writing>>

\* ----------------------------------------------------------------- helpers
Range(s) == {s[i] : i \in 1..Len(s)}

\* list.remove(x): drops the first occurrence
RECURSIVE RemoveFirst(_, _)
RemoveFirst(s, x) ==
  IF s = <<>> THEN <<>>
  ELSE IF Head(s) = x THEN Tail(s)
  ELSE <<Head(s)>> \o RemoveFirst(Tail(s), x)

IsTagItem(i) == IsTag(i)
TagsOf(s) == SelectSeq(s, IsTagItem)

\* the tags cached for every producer, in dict order
RECURSIVE CachedTags(_)
CachedTags(rc) ==
  IF rc = <<>> THEN <<>> ELSE Head(rc)[2] \o CachedTags(Tail(rc))

\* dict assignment d[fn] = tags (an existing key keeps its position)
RECURSIVE PutCallable(_, _, _)
PutCallable(rc, fn, tags) ==
  IF rc = <<>> THEN << <<fn, tags>> >>
  ELSE IF Head(rc)[1] = fn THEN << <<fn, tags>> >> \o Tail(rc)
  ELSE <<Head(rc)>> \o PutCallable(Tail(rc), fn, tags)

\* The mutable program state as one record, threaded through the operators.
Heap ==
  [childs |-> childs, parent |-> parent, dirty |-> dirty,
   rc |-> rendered_callables, attrs |-> attrs, events |-> events,
   js |-> js_calls, value |-> value, obs |-> observers, cur |-> current_eval,
   mounts |-> mounts, unmounts |-> unmounts,
   callbacks |-> callbacks, queued |-> queued, debug |-> debug,
   websockets |-> websockets, sse_queues |-> sse_queues, sent |-> sent,
   tag_entity |-> tag_entity, instances |-> instances,
   on_instance |-> on_instance, task |-> task,
   broken |-> broken, exit_on_disconnect |-> exit_on_disconnect,
   browser_cleanup |-> browser_cleanup, handlers |-> handlers,
   exited |-> exited, peer |-> peer,
   statics |-> statics, sent_statics |-> sent_statics,
   initialized |-> initialized, webserver |-> webserver,
   lock |-> lock, calls |-> calls,
   rendering |-> rendering, writing |-> writing,
   self |-> App,         \* the App instance whose method is running
   nested |-> FALSE,     \* the call runs while another handle_event waits
   exc |-> FALSE,        \* an exception is propagating
   failed |-> None,      \* the tag render_tag was rendering when it was raised
   stack |-> <<>>,       \* tags whose producer is executing, innermost last
   born |-> {},          \* objects constructed by the running operation
   reads |-> {}]         \* State.value reads: who was registered, who evaluated

\* tags held by n: literal children, then cached producer output
Held(h, n) == TagsOf(h.childs[n]) \o CachedTags(h.rc[n])

RECURSIVE ReachFrom(_, _, _)
ReachFrom(h, frontier, seen) ==
  IF frontier = {} THEN seen
  ELSE LET nxt == UNION {Range(Held(h, n)) : n \in frontier} \ seen
       IN ReachFrom(h, nxt, seen \cup nxt)
Reach(h, n) == ReachFrom(h, {n}, {n})

RECURSIVE LitFrom(_, _, _)
LitFrom(h, frontier, seen) ==
  IF frontier = {} THEN seen
  ELSE LET nxt == UNION {Range(TagsOf(h.childs[n])) : n \in frontier} \ seen
       IN LitFrom(h, nxt, seen \cup nxt)
\* n and its descendants through literal children only
LitReach(h, n) == LitFrom(h, {n}, {n})

\* objects the program can still reach: App and the application's tags are
\* referenced by application code, a producer's tag only by a cache
Live(h) == ReachFrom(h, Roots \cup AppTags, Roots \cup AppTags)

\* ------------------------------------------------------- State (core.py 78)
\* State.value (getter): registers the evaluating tag, if any
ReadValue(h) ==
  [h EXCEPT !.obs = IF h.cur # None THEN @ \cup {h.cur} ELSE @,
            !.reads = @ \cup {[reg |-> h.cur,
                               top |-> IF h.stack = <<>> THEN None
                                       ELSE h.stack[Len(h.stack)]]}]

\* State._notify_observers
NotifyObservers(h) ==
  [h EXCEPT !.dirty = [n \in Nodes |-> IF n \in h.obs THEN TRUE ELSE @[n]]]

\* a setter without the equality test
SetValueAlways(h, v) == NotifyObservers([h EXCEPT !.value = v])

\* State.value (setter)
SetValueOp(h, v) ==
  IF h.value # v THEN NotifyObservers([h EXCEPT !.value = v]) ELSE h

\* ------------------------------------------------------ GTag construction
NoAttrs == [class |-> <<>>, title |-> None, oninput |-> FALSE, value |-> None]

\* GTag.__init__ of Tag.span(content) run by a producer: init() adds the
\* content, which sets the dirty flag of the new object
NewTag(h, f, content) ==
  [h EXCEPT !.childs[f] = content, !.parent[f] = None, !.dirty[f] = TRUE,
            !.rc[f] = <<>>, !.attrs[f] = NoAttrs, !.events[f] = {},
            !.js[f] = <<>>, !.mounts[f] = 0, !.unmounts[f] = 0,
            !.obs = @ \ {f}, !.born = @ \cup {f}]

Least(S) == CHOOSE f \in S : \A g \in S : f <= g
\* the object number a new tag gets: one no live object has
FreeTag(h) == Least(FreshTags \ Live(h))

Returns(h, tags, txt, raised) ==
  [h |-> h, tags |-> tags, txt |-> txt, raised |-> raised]
Built(h, f) == Returns(NewTag(h, f, <<Text>>), <<f>>, None, FALSE)
Build(h) == Built(h, FreeTag(h))

\* ------------------------------------------------------------- rendering
\* HTML is a sequence of tokens
Tok(k, id, h) ==
  [k |-> k, id |-> id, class |-> h.attrs[id].class,
   title |-> h.attrs[id].title, oninput |-> h.attrs[id].oninput,
   value |-> h.attrs[id].value, ev |-> h.events[id]]
TextTok(v) ==
  [k |-> "text", id |-> v, class |-> <<>>, title |-> None,
   oninput |-> FALSE, value |-> None, ev |-> {}]
CloseTok(id) ==
  [k |-> "close", id |-> id, class |-> <<>>, title |-> None,
   oninput |-> FALSE, value |-> None, ev |-> {}]

Html(h, out) == [h |-> h, out |-> out]
Prefixed(t, e) == Html(e.h, t \o e.out)
Pop(s) == SubSeq(s, 1, Len(s) - 1)

RECURSIVE EvalChild(_, _, _), EvalSeq(_, _, _), StrTag(_, _), Call(_, _)

\* pNest: the f-string renders a span it has just built, whose child reads
\* the cell, and then reads the cell itself
Formatted(r) == Returns(ReadValue(r.h), <<>>, r.h.value, r.h.exc)
Format(h, f) == Formatted(StrTag(NewTag(h, f, <<pText>>), f))

\* The body of each producer, run with _ctx.current_eval already set.
\* Result: the heap, the tags and the text returned, whether it raised.
Call(h, fn) ==
  IF fn = pText THEN Returns(ReadValue(h), <<>>, h.value, FALSE)
  ELSE IF fn = pFresh THEN Build(ReadValue(h))
  ELSE IF fn = pKeep THEN Returns(h, <<Keep>>, None, FALSE)
  ELSE IF fn = pNest THEN Format(h, FreeTag(h))
  ELSE Returns(h, <<>>, None, TRUE)

\* _eval_child restoring _ctx.current_eval after the call, without finally
ReturnedNoFinally(old_eval, self, child, r) ==
  IF r.raised
  THEN Html([r.h EXCEPT !.exc = TRUE], <<>>)
  ELSE Prefixed(IF r.txt = None THEN <<>> ELSE <<TextTok(r.txt)>>,
                EvalSeq([r.h EXCEPT
                           !.cur = old_eval, !.stack = Pop(@),
                           !.parent = [n \in Nodes |->
                                         IF n \in Range(r.tags) THEN self
                                         ELSE @[n]],
                           !.rc[self] = PutCallable(@, child, r.tags)],
                        self, r.tags))

\* GTag._eval_child after res = child() returned or raised: the finally
\* clause restores _ctx.current_eval; then collect(res) sets item.parent,
\* the cache entry of the producer is replaced and res is evaluated in turn
Returned(old_eval, self, child, r) ==
  IF r.raised
  THEN Html([r.h EXCEPT !.cur = old_eval, !.stack = Pop(@), !.exc = TRUE], <<>>)
  ELSE Prefixed(IF r.txt = None THEN <<>> ELSE <<TextTok(r.txt)>>,
                EvalSeq([r.h EXCEPT
                           !.cur = old_eval, !.stack = Pop(@),
                           !.parent = [n \in Nodes |->
                                         IF n \in Range(r.tags) THEN self
                                         ELSE @[n]],
                           !.rc[self] = PutCallable(@, child, r.tags)],
                        self, r.tags))

\* GTag._eval_child
EvalChild(h, self, child) ==
  IF h.exc THEN Html(h, <<>>)
  ELSE IF IsFn(child)
    THEN Returned(h.cur, self, child,
                  Call([h EXCEPT !.cur = self, !.stack = Append(@, self)],
                       child))
  ELSE IF IsTag(child) THEN StrTag(h, child)
  ELSE Html(h, <<TextTok(None)>>)

EvalRest(a, self, s) == Prefixed(a.out, EvalSeq(a.h, self, s))
\* "".join(str(self._eval_child(c)) for c in ...)
EvalSeq(h, self, s) ==
  IF s = <<>> \/ h.exc THEN Html(h, <<>>)
  ELSE EvalRest(EvalChild(h, self, Head(s)), self, Tail(s))

\* GTag._render_attrs: a callable attribute value goes through _eval_child
RenderAttrs(h, t) ==
  IF IsFn(h.attrs[t].title) THEN EvalChild(h, t, h.attrs[t].title).h ELSE h

Content(a, t) == EvalSeq(a, t, a.childs[t])
Wrap(t, c) ==
  IF c.h.exc THEN Html(c.h, <<>>)
  ELSE IF TagName[t] \in VOID_ELEMENTS THEN Html(c.h, <<Tok("void", t, c.h)>>)
  ELSE Html(c.h, <<Tok("open", t, c.h)>> \o c.out \o <<CloseTok(t)>>)

\* GTag.__str__
StrTag(h, t) ==
  IF h.exc THEN Html(h, <<>>) ELSE Wrap(t, Content(RenderAttrs(h, t), t))

RECURSIVE process(_, _), processSeq(_, _)
\* App.render_tag.process
process(h, t) ==
  processSeq([h EXCEPT
                !.attrs[t].oninput =
                   IF TagName[t] \in InputTags /\ "input" \notin h.events[t]
                   THEN TRUE ELSE @,
                !.dirty[t] = FALSE],
             TagsOf(h.childs[t]))
processSeq(h, s) ==
  IF s = <<>> THEN h ELSE processSeq(process(h, Head(s)), Tail(s))

\* the tag whose render_tag call the exception left
Failing(r, t) ==
  IF r.h.exc /\ r.h.failed = None
  THEN Html([r.h EXCEPT !.failed = t], r.out) ELSE r

\* App.render_tag
render_tag(h, t) == Failing(StrTag(process(h, t), t), t)

\* ------------------------------------------------------------- tree edits
RECURSIVE root(_, _)
\* GTag.root: walk the parent references up to a Tag.App
root(h, n) ==
  IF n = None THEN None
  ELSE IF n \in Roots THEN n
  ELSE root(h, h.parent[n])

RECURSIVE _trigger_mount(_, _), MountSeq(_, _)
\* GTag._trigger_mount
_trigger_mount(h, t) ==
  MountSeq(MountSeq([h EXCEPT !.mounts[t] = @ + 1], TagsOf(h.childs[t])),
           CachedTags(h.rc[t]))
MountSeq(h, s) ==
  IF s = <<>> THEN h ELSE MountSeq(_trigger_mount(h, Head(s)), Tail(s))

RECURSIVE _trigger_unmount(_, _), UnmountSeq(_, _)
\* GTag._trigger_unmount
_trigger_unmount(h, t) ==
  UnmountSeq(UnmountSeq([h EXCEPT !.unmounts[t] = @ + 1], TagsOf(h.childs[t])),
             CachedTags(h.rc[t]))
UnmountSeq(h, s) ==
  IF s = <<>> THEN h ELSE UnmountSeq(_trigger_unmount(h, Head(s)), Tail(s))

\* GTag.remove, once item was found in self.childs and unmounted
Detach(h, self, item) ==
  [h EXCEPT !.childs[self] = RemoveFirst(@, item),
            !.parent = [n \in Nodes |-> IF n = item THEN None ELSE @[n]],
            !.dirty[self] = TRUE]

\* GTag.remove
remove(h, self, item) ==
  IF item \in Range(h.childs[self])
  THEN Detach(IF IsTag(item) /\ root(h, self) # None
              THEN _trigger_unmount(h, item) ELSE h,
              self, item)
  ELSE h

\* GTag.remove_self
remove_self(h, self) ==
  IF h.parent[self] # None THEN remove(h, h.parent[self], self) ELSE h

\* GTag.add, the locked part for a tag: an occurrence already in
\* self.childs is dropped, the parent is set, a rooted parent mounts it
Adopt(h, self, item) ==
  [h EXCEPT !.childs[self] = IF item \in Range(@) THEN RemoveFirst(@, item)
                             ELSE @,
            !.parent[item] = self]
Mounted(a, self, item) ==
  IF root(a, self) # None THEN _trigger_mount(a, item) ELSE a
Appended(h, self, item) ==
  [h EXCEPT !.childs[self] = Append(@, item), !.dirty[self] = TRUE]

\* GTag.add, for one item
add(h, self, item) ==
  IF IsTag(item)
  THEN Appended(
         Mounted(
           Adopt(IF h.parent[item] # None /\ h.parent[item] # self
                 THEN remove_self(h, item) ELSE h,
                 self, item),
           self, item),
         self, item)
  ELSE Appended(h, self, item)

RECURSIVE ClearChilds(_, _, _)
Orphaned(h, c) == [h EXCEPT !.parent[c] = None]
ClearChilds(h, self, s) ==
  IF s = <<>> THEN h
  ELSE ClearChilds(Orphaned(IF root(h, self) # None
                            THEN _trigger_unmount(h, Head(s)) ELSE h,
                            Head(s)),
                   self, Tail(s))

\* GTag.clear
clear(h, self) ==
  [ClearChilds(h, self, TagsOf(h.childs[self])) EXCEPT
     !.childs[self] = <<>>, !.rc[self] = <<>>, !.dirty[self] = TRUE]

\* GTag.__setattr__, name "_title"
set_attr(h, self, v) ==
  [h EXCEPT !.attrs[self].title = v, !.dirty[self] = TRUE]

\* GTag.__setattr__, name "_on<event>"
set_event(h, self, name) ==
  [h EXCEPT !.events[self] = @ \cup {name}, !.dirty[self] = TRUE]

\* a helper that sets the flag whatever fn did
_update_classes_always(h, self, classes) ==
  [h EXCEPT !.attrs[self].class = classes, !.dirty[self] = TRUE]

\* GTag._update_classes: fn edits the class list; the attribute and the
\* flag are written only when the list changed
_update_classes(h, self, classes) ==
  IF classes # h.attrs[self].class
  THEN [h EXCEPT !.attrs[self].class = classes, !.dirty[self] = TRUE]
  ELSE h

add_class(h, self, name) ==
  _update_classes(h, self,
     IF name \notin Range(h.attrs[self].class)
     THEN Append(h.attrs[self].class, name) ELSE h.attrs[self].class)

remove_class(h, self, name) ==
  _update_classes(h, self,
     IF name \in Range(h.attrs[self].class)
     THEN RemoveFirst(h.attrs[self].class, name) ELSE h.attrs[self].class)

toggle_class(h, self, name) ==
  _update_classes(h, self,
     IF name \in Range(h.attrs[self].class)
     THEN RemoveFirst(h.attrs[self].class, name)
     ELSE Append(h.attrs[self].class, name))

\* --------------------------------------------------------- reconciliation
\* A pass threads st = [h, updates, js]: the heap, the update map and the
\* script calls collected so far.
RECURSIVE collect_updates(_, _), CollectSeq(_, _)

Updated(st, t, r) ==
  IF r.h.exc THEN [st EXCEPT !.h = r.h]
  ELSE [st EXCEPT !.h = r.h, !.updates = (t :> r.out) @@ @]

\* render_tag called whatever the flag says
RenderAlways(st, t) == Updated(st, t, render_tag(st.h, t))

\* if tag.__dirty: updates[tag.id] = self.render_tag(tag)
RenderDirty(st, t) ==
  IF st.h.dirty[t] THEN Updated(st, t, render_tag(st.h, t)) ELSE st

\* 1. Check static children
Static(st, t) ==
  IF st.h.exc THEN st ELSE CollectSeq(st, TagsOf(st.h.childs[t]))

\* the traversal without its step 2
DynamicSkipped(st, t) == st

\* 2. Check dynamic (rendered) children
Dynamic(st, t) ==
  IF st.h.exc THEN st ELSE CollectSeq(st, CachedTags(st.h.rc[t]))

\* Extract and clear JS calls
Extract(st, t) ==
  IF st.h.exc THEN st
  ELSE [st EXCEPT !.js = @ \o st.h.js[t], !.h.js[t] = <<>>]

\* App.collect_updates: the four steps run one after the other, each on
\* the traversal state the one before it left
collect_updates(st, t) ==
  IF st.h.exc THEN st
  ELSE CHOOSE r \in {Extract(d, t) :
                       d \in {Dynamic(c, t) :
                                c \in {Static(b, t) :
                                         b \in {RenderDirty(st, t)}}}} : TRUE
CollectSeq(st, s) ==
  IF s = <<>> THEN st ELSE CollectSeq(collect_updates(st, Head(s)), Tail(s))

\* ------------------------------------------------------------ the program
NoUpdates == [n \in {} |-> <<>>]

\* what the last operation was and what it reported
Report(op, node, item) ==
  [op |-> op, node |-> node, item |-> item, updates |-> NoUpdates,
   js |-> <<>>, raised |-> FALSE, failed |-> None,
   dirty0 |-> {n \in Nodes : dirty[n]},    \* the flags set when it started
   obs0 |-> observers,                     \* the observers when it started
   reach0 |-> {}, born |-> {},
   cid |-> None,                           \* the callback_id a pass was given
   body |-> Unset,                         \* the body of the page returned
   statics |-> <<>>]                       \* the fragments sent or inlined

\* An object nothing refers to any more is freed: its slot goes back to the
\* state of an unused slot and it leaves the weak observer set.
Freed(h, dead) ==
  IF dead = {} THEN h
  ELSE [h EXCEPT
          !.childs = [n \in Nodes |-> IF n \in dead THEN <<>> ELSE @[n]],
          !.parent = [n \in Nodes |-> IF n \in dead THEN None ELSE @[n]],
          !.dirty = [n \in Nodes |-> IF n \in dead THEN FALSE ELSE @[n]],
          !.rc = [n \in Nodes |-> IF n \in dead THEN <<>> ELSE @[n]],
          !.attrs = [n \in Nodes |-> IF n \in dead THEN NoAttrs ELSE @[n]],
          !.events = [n \in Nodes |-> IF n \in dead THEN {} ELSE @[n]],
          !.js = [n \in Nodes |-> IF n \in dead THEN <<>> ELSE @[n]],
          !.mounts = [n \in Nodes |-> IF n \in dead THEN 0 ELSE @[n]],
          !.unmounts = [n \in Nodes |-> IF n \in dead THEN 0 ELSE @[n]],
          !.obs = @ \ dead]
Free(h) == Freed(h, {f \in FreshTags \ Live(h) : h.childs[f] # <<>>})

\* the operation's effect becomes the program state
Store(h, rep) ==
  /\ childs' = h.childs
  /\ parent' = h.parent
  /\ dirty' = h.dirty
  /\ rendered_callables' = h.rc
  /\ attrs' = h.attrs
  /\ events' = h.events
  /\ js_calls' = h.js
  /\ value' = h.value
  /\ observers' = h.obs
  /\ current_eval' = h.cur
  /\ mounts' = h.mounts
  /\ unmounts' = h.unmounts
  /\ reads' = h.reads
  /\ callbacks' = h.callbacks
  /\ queued' = h.queued
  /\ debug' = h.debug
  /\ websockets' = h.websockets
  /\ sse_queues' = h.sse_queues
  /\ sent' = h.sent
  /\ tag_entity' = h.tag_entity
  /\ instances' = h.instances
  /\ on_instance' = h.on_instance
  /\ task' = h.task
  /\ broken' = h.broken
  /\ exit_on_disconnect' = h.exit_on_disconnect
  /\ browser_cleanup' = h.browser_cleanup
  /\ handlers' = h.handlers
  /\ exited' = h.exited
  /\ peer' = h.peer
  /\ statics' = h.statics
  /\ sent_statics' = h.sent_statics
  /\ initialized' = h.initialized
  /\ webserver' = h.webserver
  /\ lock' = h.lock
  /\ calls' = h.calls
  /\ rendering' = h.rendering
  /\ writing' = h.writing
  /\ last' = rep

\* The fields each App instance has of its own.  A method of the second
\* session's App runs on the record with the two instances exchanged.
Own(h) ==
  [websockets |-> h.websockets, sse_queues |-> h.sse_queues,
   task |-> h.task, debug |-> h.debug, broken |-> h.broken,
   exit_on_disconnect |-> h.exit_on_disconnect,
   browser_cleanup |-> h.browser_cleanup, handlers |-> h.handlers,
   sent_statics |-> h.sent_statics]
\* instances whose transport sets are one and the same object
SwapSharedSets(h) ==
  [h EXCEPT !.self = IF @ = App THEN App2 ELSE App,
            !.task = h.peer.task, !.debug = h.peer.debug,
            !.broken = h.peer.broken,
            !.exit_on_disconnect = h.peer.exit_on_disconnect,
            !.browser_cleanup = h.peer.browser_cleanup,
            !.handlers = h.peer.handlers,
            !.sent_statics = h.peer.sent_statics,
            !.peer = [Own(h) EXCEPT !.websockets = h.peer.websockets,
                                    !.sse_queues = h.peer.sse_queues]]

Swap(h) ==
  [h EXCEPT !.self = IF @ = App THEN App2 ELSE App,
            !.websockets = h.peer.websockets,
            !.sse_queues = h.peer.sse_queues,
            !.task = h.peer.task, !.debug = h.peer.debug,
            !.broken = h.peer.broken,
            !.exit_on_disconnect = h.peer.exit_on_disconnect,
            !.browser_cleanup = h.peer.browser_cleanup,
            !.handlers = h.peer.handlers,
            !.sent_statics = h.peer.sent_statics,
            !.peer = Own(h)]
\* the transports registered with the instance, and those whose handler has
\* not ended
Active(h) == h.websockets \cup h.sse_queues
Served(h) == Active(h) \cup h.broken
\* the record as the instance r sees it
Of(r) == IF r = App THEN Heap ELSE Swap(Heap)
Home(h) == IF h.self = App THEN h ELSE Swap(h)
\* a handle_event call that ran while another one was suspended has
\* returned: the suspended one is the call in progress again
Returning(h) ==
  IF h.nested
  THEN [h EXCEPT !.task = [task EXCEPT !.count = h.task.count,
                                       !.errors = h.task.errors]]
  ELSE h
\* the record is computed once, then every variable is assigned from it
Commit(h, rep) == \E g \in {Free(Home(Returning(h)))} : Store(g, rep)
\* the effect of a step of _handle_disconnect run by the instance r, which
\* changes only its own position and whether the process runs
Settle(r, h, rep) ==
  /\ handlers' = IF r = App THEN h.handlers ELSE handlers
  /\ peer' = IF r = App THEN peer ELSE [peer EXCEPT !.handlers = h.handlers]
  /\ exited' = h.exited
  /\ last' = rep
  /\ UNCHANGED <<childs, parent, dirty, rendered_callables, attrs, events,
                 js_calls, value, observers, current_eval, mounts, unmounts,
                 reads, callbacks, queued, debug, websockets, sse_queues,
                 sent, tag_entity, instances, on_instance, task, broken,
                 exit_on_disconnect, browser_cleanup, statics,
                 sent_statics, initialized, webserver, lock, calls,
                 rendering, writing>>

\* no handle_event call has run yet
NoTask ==
  [pc |-> "idle", target |-> None, callback |-> Unset, callback_id |-> None,
   ws |-> Unset, steps |-> 0, passes |-> 0, outcome |-> "none",
   base |-> [t \in Transports |-> 0], count |-> 0, errors |-> 0]

\* no _handle_disconnect task is pending: none was created and not yet
\* run, none is in its sleep; stale counts the sleeping ones whose sleep
\* began before the instance's latest disconnection
NoHandlers == [created |-> 0, asleep |-> 0, stale |-> 0]

\* no pass is running and none has run; no assignment is running
NoPass ==
  [pc |-> "out", queue |-> <<>>, todo |-> <<>>, seen |-> [n \in Nodes |-> None]]
NoWrite == [pc |-> "out", todo |-> {}, used |-> 0]

\* a server thread that is not inside _get_instance
NoCall == [pc |-> "out", sid |-> Unset, got |-> None, ready |-> FALSE]

\* App(), Tag.div() and Tag.input() just constructed, nothing attached, no
\* WebApp hosting the App, no client connected
Start ==
  /\ exit_on_disconnect = FALSE
  /\ browser_cleanup = FALSE
  /\ handlers = NoHandlers
  /\ exited = "no"
  /\ peer = [websockets |-> {}, sse_queues |-> {}, task |-> NoTask,
             debug |-> TRUE, broken |-> {}, exit_on_disconnect |-> FALSE,
             browser_cleanup |-> FALSE, handlers |-> NoHandlers,
             sent_statics |-> {}]
  /\ statics = [n \in Nodes |-> <<>>]
  /\ sent_statics = {}
  /\ initialized = [r \in Roots |-> 0]
  /\ webserver = {}
  /\ lock = Unset
  /\ calls = [t \in Threads |-> NoCall]
  /\ rendering = NoPass
  /\ writing = NoWrite
  /\ callbacks = [n \in Nodes |-> Unset]
  /\ queued = 0
  /\ debug = TRUE
  /\ websockets = {}
  /\ sse_queues = {}
  /\ sent = [t \in Transports |-> <<>>]
  /\ tag_entity = Unset
  /\ instances = [sid \in Sids |-> None]
  /\ on_instance = Unset
  /\ task = NoTask
  /\ broken = {}
  /\ childs = [n \in Nodes |-> <<>>]
  /\ parent = [n \in Nodes |-> None]
  /\ dirty = [n \in Nodes |-> FALSE]
  /\ rendered_callables = [n \in Nodes |-> <<>>]
  /\ attrs = [n \in Nodes |-> NoAttrs]
  /\ events = [n \in Nodes |-> {}]
  /\ js_calls = [n \in Nodes |-> <<>>]
  /\ value = 0
  /\ observers = {}
  /\ current_eval = None
  /\ mounts = [n \in Nodes |-> 0]
  /\ unmounts = [n \in Nodes |-> 0]
  /\ last = Report("init", None, None)
  /\ reads = {}

Init == Start /\ fuel = MaxOps

\* application code: parent.add(item)
Add(p, i) ==
  /\ fuel > 0
  /\ IsTag(i) => p \notin Reach(Heap, i)
  /\ fuel' = fuel - 1
  /\ Commit(add(Heap, p, i), Report("add", p, i))

\* GTag.root evaluated in at most k steps of its while loop: the App found,
\* None when the chain of parents ends, Endless when the loop is still
\* running after as many steps as there are tags
Endless == -2
RECURSIVE Walk(_, _, _)
Walk(h, n, k) ==
  IF n = None THEN None
  ELSE IF n \in Roots THEN n
  ELSE IF k = 0 THEN Endless
  ELSE Walk(h, h.parent[n], k - 1)
\* GTag.add up to its test of self.root
Adopted(h, self, item) ==
  Adopt(IF h.parent[item] # None /\ h.parent[item] # self
        THEN remove_self(h, item) ELSE h,
        self, item)
\* application code: parent.add(item) for any two tags, the parent being
\* the item itself or one of its descendants included.  A call whose root
\* lookup never ends leaves the program inside add; a tree that holds
\* itself is not used further.
AddAny(p, i) ==
  /\ fuel > 0
  /\ IF p \notin Reach(Heap, i)
     THEN /\ fuel' = fuel - 1
          /\ Commit(add(Heap, p, i), Report("add", p, i))
     ELSE /\ fuel' = 0
          /\ IF Walk(Adopted(Heap, p, i), p, Cardinality(Nodes)) = Endless
             THEN Commit(Adopted(Heap, p, i), Report("hang", p, i))
             ELSE Commit(add(Heap, p, i), Report("add", p, i))

\* application code: parent.remove(item)
Remove(p, i) ==
  /\ fuel > 0
  /\ i \in Range(childs[p])
  /\ fuel' = fuel - 1
  /\ Commit(remove(Heap, p, i), Report("remove", p, i))

\* A reconciliation pass and an assignment to the cell, statement by
\* statement, as two threads run them.
\* the tags collect_updates visits from t, in order (literal children)
RECURSIVE Visits(_, _), VisitsSeq(_, _)
Visits(h, t) == <<t>> \o VisitsSeq(h, TagsOf(h.childs[t]))
VisitsSeq(h, s) ==
  IF s = <<>> THEN <<>> ELSE Visits(h, Head(s)) \o VisitsSeq(h, Tail(s))
\* the tags whose producer str(t) calls, in order: t for each pText among
\* its children, and the same for its literal children
RECURSIVE Readers(_, _), ReadersSeq(_, _, _)
Readers(h, t) == ReadersSeq(h, t, h.childs[t])
ReadersSeq(h, t, s) ==
  IF s = <<>> THEN <<>>
  ELSE (IF Head(s) = pText THEN <<t>>
        ELSE IF IsTag(Head(s)) THEN Readers(h, Head(s)) ELSE <<>>)
       \o ReadersSeq(h, t, Tail(s))
\* broadcast_updates starts: collect_updates(self, ...)
PassBegin ==
  /\ rendering.pc \in {"out", "done"}
  /\ UNCHANGED fuel
  /\ Commit([Heap EXCEPT !.rendering = [pc |-> "visit", queue |-> Visits(Heap, App),
                                        todo |-> <<>>, seen |-> @.seen]],
            Report("begin", App, None))
\* collect_updates reaches a tag: a dirty one is given to render_tag, whose
\* process step clears the flags before str(tag) runs
Entered(h, n) ==
  IF h.dirty[n]
  THEN [process(h, n) EXCEPT
          !.rendering.queue = Tail(@),
          !.rendering.todo = Readers(h, n),
          !.rendering.pc = IF Readers(h, n) = <<>> THEN "visit" ELSE "read"]
  ELSE [h EXCEPT !.rendering.queue = Tail(@)]
Visit ==
  /\ rendering.pc = "visit" /\ rendering.queue # <<>>
  /\ UNCHANGED fuel
  /\ Commit(Entered(Heap, Head(rendering.queue)),
            Report("visit", Head(rendering.queue), None))
\* str(tag) calls the next producer, which reads cell.value
Evaluated(h, n) ==
  [ReadValue([h EXCEPT !.cur = n]) EXCEPT
     !.cur = None,
     !.rendering.seen[n] = h.value,
     !.rendering.todo = Tail(@),
     !.rendering.pc = IF Tail(h.rendering.todo) = <<>> THEN "visit" ELSE "read"]
ReadStep ==
  /\ rendering.pc = "read"
  /\ UNCHANGED fuel
  /\ Commit(Evaluated(Heap, Head(rendering.todo)),
            Report("read", Head(rendering.todo), None))
\* the traversal is over
PassEnd ==
  /\ rendering.pc = "visit" /\ rendering.queue = <<>>
  /\ UNCHANGED fuel
  /\ Commit([Heap EXCEPT !.rendering.pc = "done"], Report("end", App, None))
\* cell.value = v in another thread: the value is stored and the loop of
\* _notify_observers over the weak set begins
WriteBegin(v) ==
  /\ fuel > 0
  /\ writing.pc # "notify"
  /\ value # v
  /\ fuel' = fuel - 1
  /\ Commit([Heap EXCEPT !.value = v,
                         !.writing = [pc |-> "notify", todo |-> observers,
                                      used |-> Cardinality(observers)]],
            Report("write", None, v))
\* the loop asks the set for its next element: a set whose size changed
\* since the loop began raises RuntimeError, which ends the assignment;
\* otherwise one more observer, in any order, is marked
Notified(h, o) ==
  [h EXCEPT !.dirty[o] = TRUE, !.writing.todo = @ \ {o}]
NotifyStep ==
  /\ writing.pc = "notify"
  /\ UNCHANGED fuel
  /\ IF Cardinality(observers) # writing.used
     THEN Commit([Heap EXCEPT !.writing.pc = "raised"], Report("notify", None, None))
     ELSE IF writing.todo = {}
     THEN Commit([Heap EXCEPT !.writing.pc = "out"], Report("notify", None, None))
     ELSE \E o \in writing.todo :
            Commit(Notified(Heap, o), Report("notify", o, None))
\* application code edits the tree between two passes
Edit(p, i) == rendering.pc \in {"out", "done"} /\ Add(p, i)

\* A program whose tags show a cell that a background thread assigns.
InitWrite == Start /\ fuel = MaxWriteOps
NextWrite ==
  \/ \E p \in Holders, i \in {1, pText} : Edit(p, i)
  \/ PassBegin
  \/ Visit
  \/ ReadStep
  \/ PassEnd
  \/ \E v \in Values : WriteBegin(v)
  \/ NotifyStep
SpecWrite == InitWrite /\ [][NextWrite]_vars

\* A program that adds its tags to one another.
CycleTags == {App, 1, 2}
InitCycle == Start /\ fuel = MaxCycleOps
NextCycle ==
  \/ \E p \in CycleTags, i \in CycleTags : AddAny(p, i)
  \/ \E p \in CycleTags, i \in CycleTags : Remove(p, i)
SpecCycle == InitCycle /\ [][NextCycle]_vars

\* application code: parent.clear()
Clear(p) ==
  /\ fuel > 0
  /\ fuel' = fuel - 1
  /\ Commit(clear(Heap, p), Report("clear", p, None))

\* application code: cell.value = v
SetValue(v) ==
  /\ fuel > 0
  /\ fuel' = fuel - 1
  /\ Commit(SetValueOp(Heap, v), Report("set", None, v))

\* application code: cell.notify()
Notify ==
  /\ fuel > 0
  /\ fuel' = fuel - 1
  /\ Commit(NotifyObservers(Heap), Report("notify", None, None))

\* application code: tag._title = v (a literal or a reactive attribute)
SetAttr(n, v) ==
  /\ fuel > 0
  /\ fuel' = fuel - 1
  /\ Commit(set_attr(Heap, n, v), Report("attr", n, v))

\* application code: tag._onclick = callback
SetEvent(n) ==
  /\ fuel > 0
  /\ fuel' = fuel - 1
  /\ Commit(set_event(Heap, n, "click"), Report("event", n, None))

\* application code: tag.add_class(c)
AddClass(n, c) ==
  /\ fuel > 0
  /\ fuel' = fuel - 1
  /\ Commit(add_class(Heap, n, c), Report("add_class", n, None))

\* application code: tag.remove_class(c)
RemoveClass(n, c) ==
  /\ fuel > 0
  /\ fuel' = fuel - 1
  /\ Commit(remove_class(Heap, n, c), Report("remove_class", n, None))

\* application code: tag.toggle_class(c)
ToggleClass(n, c) ==
  /\ fuel > 0
  /\ fuel' = fuel - 1
  /\ Commit(toggle_class(Heap, n, c), Report("toggle_class", n, None))

\* application code outside any render (event callback): x = cell.value
Read ==
  /\ fuel > 0
  /\ fuel' = fuel - 1
  /\ Commit(ReadValue(Heap), Report("read", None, None))

RECURSIVE Merged(_, _)
\* if s_str not in result: result.append(s_str)
Merged(result, s) ==
  IF s = <<>> THEN result
  ELSE Merged(IF Head(s) \in Range(result) THEN result
              ELSE Append(result, Head(s)), Tail(s))
RECURSIVE collect_statics(_, _, _), StaticsSeq(_, _, _)
\* App.collect_statics: the fragments of the tag, of its children, of the
\* tags its producers made
collect_statics(h, t, result) ==
  StaticsSeq(h, Held(h, t), Merged(result, h.statics[t]))
StaticsSeq(h, s, result) ==
  IF s = <<>> THEN result
  ELSE StaticsSeq(h, Tail(s), collect_statics(h, Head(s), result))

\* a pass that sends every fragment of the tree again
new_statics_all(h, all) == all

\* new_statics = [s for s in all_statics if s not in self.sent_statics]
new_statics(h, all) ==
  SelectSeq(all, LAMBDA f : f \notin h.sent_statics)
NewStatics(h) ==
  IF h.exc THEN <<>>
  ELSE new_statics(h, collect_statics(h, h.self, <<>>))

\* what a render or a pass reports; the exception, if any, was caught
Outcome(op, h, updates, js) ==
  [Report(op, h.self, None) EXCEPT
     !.statics = IF op \in {"collect", "handle"} THEN NewStatics(h) ELSE <<>>,
     !.updates = IF h.exc THEN NoUpdates ELSE updates,
     !.js = IF h.exc THEN <<>> ELSE js,
     !.raised = h.exc, !.failed = h.failed,
     !.reach0 = Reach(Heap, h.self), !.born = h.born]
Caught(h) == [h EXCEPT !.exc = FALSE]

Rendered(r) ==
  Commit(Caught(r.h), Outcome("initial", r.h, (r.h.self :> r.out), <<>>))
\* App.render_initial, as run for a page load or a new connection; the
\* callers catch what it raises
RenderInitial ==
  /\ UNCHANGED fuel
  /\ Rendered(render_tag(Heap, App))

\* an error message that always carries the traceback
ErrorMsgDetailed(h, callback_id, trace) ==
  [action |-> "error", keys |-> {}, js |-> <<>>, statics |-> <<>>,
   callback_id |-> callback_id, result |-> None, traceback |-> trace]

\* the JSON message of a failed pass or callback
ErrorMsg(h, callback_id, trace) ==
  [action |-> "error", keys |-> {}, js |-> <<>>, statics |-> <<>>,
   callback_id |-> callback_id, result |-> None,
   traceback |-> IF h.debug THEN trace ELSE Generic]

\* the JSON message of a pass: callback_id and result are present only
\* with a callback_id
UpdateMsg(st, result, callback_id) ==
  [action |-> "update", keys |-> DOMAIN st.updates, js |-> st.js,
   statics |-> <<>>,
   callback_id |-> callback_id,
   result |-> IF callback_id # None THEN result ELSE None,
   traceback |-> Unset]

\* a broadcast that gives up at the first websocket whose write raises
BroadcastBroken(h, m) ==
  IF h.websockets \cap h.broken # {} THEN h
  ELSE [h EXCEPT !.sent = [t \in Transports |->
                             IF t \in h.websockets \cup h.sse_queues
                             THEN Append(@[t], m) ELSE @[t]]]

\* send_text on every websocket, put_nowait on every SSE queue; the
\* websockets whose send_text raised are discarded
Broadcast(h, m) ==
  [h EXCEPT !.sent = [t \in Transports |->
                        IF t \in (h.websockets \ h.broken) \cup h.sse_queues
                        THEN Append(@[t], m) ELSE @[t]],
            !.websockets = @ \ h.broken]

\* a broadcast that sends what it collected whether or not a render raised
PushedPartial(st, result, callback_id) ==
  IF DOMAIN st.updates # {} \/ st.js # <<>> \/ callback_id # None
  THEN Broadcast(Caught(st.h), UpdateMsg(st, result, callback_id))
  ELSE Caught(st.h)

\* the update message is sent when there is something to send, and the
\* fragments it carries are remembered
Fresh(st, result, callback_id, new) ==
  IF DOMAIN st.updates # {} \/ st.js # <<>> \/ new # <<>>
     \/ callback_id # None
  THEN Broadcast([st.h EXCEPT !.sent_statics = @ \cup Range(new)],
                 [UpdateMsg(st, result, callback_id) EXCEPT !.statics = new])
  ELSE st.h

\* App.broadcast_updates once collect_updates returned or raised
Pushed(st, result, callback_id) ==
  IF st.h.exc
  THEN Broadcast(Caught(st.h), ErrorMsg(st.h, callback_id, "TypeError"))
  ELSE Fresh(st, result, callback_id, NewStatics(st.h))

\* App.broadcast_updates
broadcast_updates(h, result, callback_id) ==
  Pushed(collect_updates([h |-> h, updates |-> NoUpdates, js |-> <<>>],
                         h.self),
         result, callback_id)

Collected(st) ==
  Commit(Pushed(st, None, None), Outcome("collect", st.h, st.updates, st.js))
\* App.broadcast_updates: one reconciliation pass started at the root; when
\* it raises, what was collected is dropped and an error is reported
Passing(h) ==
  /\ h.exited = "no"
  /\ UNCHANGED fuel
  /\ Collected(collect_updates([h |-> h, updates |-> NoUpdates,
                                js |-> <<>>], h.self))
BroadcastUpdates == Passing(Heap)
\* the same for the instance r
PassOf(r) == Passing(Of(r))

Next ==
  \/ \E p \in Holders, i \in Items : Add(p, i)
  \/ \E p \in Holders, i \in Items : Remove(p, i)
  \/ \E p \in Holders : Clear(p)
  \/ \E v \in Values : SetValue(v)
  \/ Notify
  \/ RenderInitial
  \/ BroadcastUpdates

Spec == Init /\ [][Next]_vars

\* A program in which a producer returns a tag the application also adds
\* and edits.
ShareItems == AppTags \cup {pKeep}
InitShare == Start /\ fuel = MaxShareOps
NextShare ==
  \/ \E p \in Holders, i \in ShareItems : Add(p, i)
  \/ \E n \in AppTags : SetAttr(n, Text)
  \/ RenderInitial
  \/ BroadcastUpdates
SpecShare == InitShare /\ [][NextShare]_vars

\* A program that edits attributes, classes, event bindings and children
\* of rendered tags and writes the cell.
AttrItems == {1, pText}
AttrValues == {Text, pText}
InitAttrs == Start /\ fuel = MaxAttrOps
NextAttrs ==
  \/ \E p \in Holders, i \in AttrItems : Add(p, i)
  \/ \E p \in Holders, i \in AttrItems : Remove(p, i)
  \/ \E p \in Holders : Clear(p)
  \/ \E n \in Holders, v \in AttrValues : SetAttr(n, v)
  \/ \E n \in Holders : SetEvent(n)
  \/ \E n \in Holders, c \in ClassNames : AddClass(n, c)
  \/ \E n \in Holders, c \in ClassNames : RemoveClass(n, c)
  \/ \E n \in Holders, c \in ClassNames : ToggleClass(n, c)
  \/ \E v \in Values : SetValue(v)
  \/ Notify
  \/ RenderInitial
  \/ BroadcastUpdates
SpecAttrs == InitAttrs /\ [][NextAttrs]_vars

\* A program built around the State cell: producers that read it as child
\* or as attribute, writes, and reads made outside a render.
StateItems == {1, pText, pNest, pRaise}
InitState == Start /\ fuel = MaxStateOps
NextState ==
  \/ \E p \in Holders, i \in StateItems : Add(p, i)
  \/ \E n \in Holders : SetAttr(n, pText)
  \/ \E v \in Values : SetValue(v)
  \/ Notify
  \/ Read
  \/ RenderInitial
  \/ BroadcastUpdates
SpecState == InitState /\ [][NextState]_vars

\* WebApp.__init__: the host is given the App class or an App instance
Serve(entity) ==
  /\ fuel > 0
  /\ tag_entity = Unset
  /\ fuel' = fuel - 1
  /\ Commit([Heap EXCEPT !.tag_entity = entity], Report("serve", None, None))

\* a runner builds the WebApp with its on_inst hook (runner.py 200-208)
Run(entity, hook) ==
  /\ tag_entity = Unset
  /\ UNCHANGED fuel
  /\ Commit([Heap EXCEPT !.tag_entity = entity, !.on_instance = hook,
                         !.exit_on_disconnect =
                           IF entity = "instance" THEN TRUE ELSE @],
            Report("serve", None, None))

\* WebApp._get_instance: a session id not yet in the registry gets the
\* shared instance or an instance built from the class (App for the first
\* session, App2 for the second), which is given to the on_instance hook
\* and mounted
Sessions(h) == {sid \in Sids : h.instances[sid] # None}
\* a WebApp that hands the first instance to every session
InstanceShared(h) == App

\* self.tag_entity() for the class, self.tag_entity for the instance
Instance(h) ==
  IF h.tag_entity = "class" /\ Sessions(h) # {} THEN App2 ELSE App
\* the runners' on_inst: exit_on_disconnect and the cleanup hook of the
\* instance r
Hooked(h, r) ==
  IF h.on_instance = Unset THEN h
  ELSE IF r = h.self
  THEN [h EXCEPT !.exit_on_disconnect = TRUE,
                 !.browser_cleanup = @ \/ h.on_instance = "cleanup",
                 !.initialized[r] = @ + 1]
  ELSE [h EXCEPT !.peer.exit_on_disconnect = TRUE,
                 !.peer.browser_cleanup = @ \/ h.on_instance = "cleanup",
                 !.initialized[r] = @ + 1]
\* setattr(self.instances[sid], "_webserver", self)
Linked(h, r) == [h EXCEPT !.webserver = @ \cup {r}]
Registered(h, sid, r) ==
  _trigger_mount(Linked(Hooked([h EXCEPT !.instances[sid] = r], r), r), r)
_get_instance(h, sid) ==
  IF h.instances[sid] = None
  THEN Registered(h, sid, Instance(h))
  ELSE h
\* the instance _get_instance returns
Resolved(h, sid) ==
  IF h.instances[sid] = None THEN Instance(h) ELSE h.instances[sid]

\* WebApp._get_instance run by a server thread, statement by statement.
\* whether the instance r has been through the hook, the back-link and the
\* mount notification
Ready(h, r) ==
  /\ r \in h.webserver
  /\ h.mounts[r] > 0
  /\ h.on_instance = Unset \/ h.initialized[r] > 0
\* return self.instances[sid]
Return(h, t) ==
  [h EXCEPT !.calls[t].pc = "done",
            !.calls[t].got = h.instances[h.calls[t].sid],
            !.calls[t].ready = Ready(h, h.instances[h.calls[t].sid])]
\* the thread t takes up a request carrying the cookie htag_sid = sid
Enter(t, sid) ==
  /\ fuel > 0
  /\ tag_entity # Unset
  /\ calls[t].pc = "out"
  /\ fuel' = fuel - 1
  /\ Commit([Heap EXCEPT !.calls[t] = [NoCall EXCEPT !.pc = "check", !.sid = sid]],
            Report("enter", None, None))
\* if sid not in self.instances (outside the lock)
Check(t) ==
  /\ calls[t].pc = "check"
  /\ UNCHANGED fuel
  /\ IF instances[calls[t].sid] # None
     THEN Commit(Return(Heap, t), Report("return", instances[calls[t].sid], None))
     ELSE Commit([Heap EXCEPT !.calls[t].pc = "wait"], Report("check", None, None))
\* with self._lock
Acquire(t) ==
  /\ calls[t].pc = "wait"
  /\ lock = Unset
  /\ UNCHANGED fuel
  /\ Commit([Heap EXCEPT !.lock = t, !.calls[t].pc = "locked"],
            Report("acquire", None, None))
\* if sid not in self.instances (inside the lock), then
\* self.instances[sid] = self.tag_entity() or self.tag_entity
Assign(t) ==
  /\ calls[t].pc = "locked"
  /\ UNCHANGED fuel
  /\ IF instances[calls[t].sid] # None
     THEN Commit([Heap EXCEPT !.calls[t].pc = "release"],
                 Report("check", None, None))
     ELSE Commit([Heap EXCEPT !.instances[calls[t].sid] = Instance(Heap),
                              !.calls[t].pc = "assigned"],
                 Report("assign", Instance(Heap), None))
\* if self.on_instance: self.on_instance(self.instances[sid])
Hook(t) ==
  /\ calls[t].pc = "assigned"
  /\ UNCHANGED fuel
  /\ Commit([Hooked(Heap, instances[calls[t].sid]) EXCEPT !.calls[t].pc = "hooked"],
            Report("hook", instances[calls[t].sid], None))
\* setattr(self.instances[sid], "_webserver", self)
Link(t) ==
  /\ calls[t].pc = "hooked"
  /\ UNCHANGED fuel
  /\ Commit([Linked(Heap, instances[calls[t].sid]) EXCEPT !.calls[t].pc = "linked"],
            Report("link", instances[calls[t].sid], None))
\* self.instances[sid]._trigger_mount()
Mount(t) ==
  /\ calls[t].pc = "linked"
  /\ UNCHANGED fuel
  /\ Commit([_trigger_mount(Heap, instances[calls[t].sid])
               EXCEPT !.calls[t].pc = "release"],
            Report("mount", instances[calls[t].sid], None))
\* the with block ends; return self.instances[sid]
Release(t) ==
  /\ calls[t].pc = "release"
  /\ UNCHANGED fuel
  /\ Commit(Return([Heap EXCEPT !.lock = Unset], t),
            Report("return", instances[calls[t].sid], None))
\* the route that called _get_instance has finished
Leave(t) ==
  /\ calls[t].pc = "done"
  /\ UNCHANGED fuel
  /\ Commit([Heap EXCEPT !.calls[t] = NoCall], Report("leave", None, None))

\* Requests served by two threads.
InitRace == Start /\ fuel = MaxRaceOps
NextRace ==
  \/ \E e \in {"class", "instance"} : Serve(e)
  \/ \E e \in {"class", "instance"} : Run(e, "exit")
  \/ \E t \in Threads, sid \in Sids : Enter(t, sid)
  \/ \E t \in Threads : Check(t)
  \/ \E t \in Threads : Acquire(t)
  \/ \E t \in Threads : Assign(t)
  \/ \E t \in Threads : Hook(t)
  \/ \E t \in Threads : Link(t)
  \/ \E t \in Threads : Mount(t)
  \/ \E t \in Threads : Release(t)
  \/ \E t \in Threads : Leave(t)
SpecRace == InitRace /\ [][NextRace]_vars

\* a request carrying the cookie htag_sid = sid reaches a route
GetInstance(sid) ==
  /\ fuel > 0
  /\ tag_entity # Unset
  /\ fuel' = fuel - 1
  /\ Commit(_get_instance(Heap, sid), Report("session", Resolved(Heap, sid), None))

\* A program that builds its tree, is hosted by a WebApp and is reached by
\* browsers holding one session cookie or another.
SessionItems == AppTags
InitSession == Start /\ fuel = MaxSessionOps
NextSession ==
  \/ \E p \in Holders, i \in SessionItems : Add(p, i)
  \/ \E p \in Holders, i \in SessionItems : Remove(p, i)
  \/ \E e \in {"class", "instance"} : Serve(e)
  \/ \E sid \in Sids : GetInstance(sid)
SpecSession == InitSession /\ [][NextSession]_vars

\* GTag.call_js: the fragment is appended to the tag's pending list; the
\* fragments are numbered in the order they are queued
call_js(h, n) ==
  [h EXCEPT !.js[n] = Append(@, h.queued + 1), !.queued = @ + 1]

\* application code: tag.call_js(script) on a tag of the tree
Calling(r, n) ==
  /\ fuel > 0
  /\ n \in Reach(Heap, r)
  /\ fuel' = fuel - 1
  /\ Commit(call_js(Heap, n), Report("call_js", n, None))
CallJs(n) == Calling(App, n)

\* the message a new connection starts with
InitialMsg(h, js) ==
  [action |-> "update", keys |-> {h.self}, js |-> js, statics |-> <<>>,
   callback_id |-> None,
   result |-> None, traceback |-> Unset]
\* a write to one transport; what send_text raises is caught by the caller
Send(h, t, m) == IF t \in h.broken THEN h ELSE [h EXCEPT !.sent[t] = Append(@, m)]
Attached(h, t) ==
  IF t \in Websockets
  THEN [h EXCEPT !.websockets = @ \cup {t}]
  ELSE [h EXCEPT !.sse_queues = @ \cup {t}]

\* App._handle_websocket and App._handle_sse up to their receive loop: the
\* transport is registered, the page is rendered, the pending script calls
\* are collected and the initial message is sent to this transport; a
\* failure is only logged
Initial(st, t) ==
  IF st.h.exc THEN Caught(st.h) ELSE Send(st.h, t, InitialMsg(st.h, st.js))
InitialPass(t, out, st) ==
  Commit(Initial(st, t), Outcome("connect", st.h, (st.h.self :> out), st.js))
Connected(t, r) ==
  IF r.h.exc
  THEN Commit(Caught(r.h), Outcome("connect", r.h, NoUpdates, <<>>))
  ELSE InitialPass(t, r.out,
                   collect_updates([h |-> r.h, updates |-> NoUpdates,
                                    js |-> <<>>], r.h.self))
\* a transport name is free once the handler that served it has ended
Opening(h, t) ==
  /\ fuel > 0 /\ h.exited = "no"
  /\ t \notin Served(h) \cup Served(Swap(h))
  /\ fuel' = fuel - 1
  /\ Connected(t, render_tag(Attached(h, t), h.self))
Connect(t) == Opening(Heap, t)

\* the routes /ws and /stream of the WebApp: the session's instance is
\* looked up, or created, and handles the connection
Routed(h, sid) == IF Resolved(h, sid) = h.self THEN h ELSE Swap(h)
Open(sid, t) ==
  /\ tag_entity # Unset
  /\ Opening(Routed(_get_instance(Heap, sid), sid), t)

\* App._handle_disconnect up to its sleep: nothing to do while a client is
\* registered or when exit_on_disconnect is off
Started(h) ==
  IF Active(h) # {} \/ ~h.exit_on_disconnect
  THEN [h EXCEPT !.handlers.created = @ - 1]
  ELSE [h EXCEPT !.handlers.created = @ - 1, !.handlers.asleep = @ + 1]
HandleDisconnect(r) ==
  /\ exited = "no"
  /\ Of(r).handlers.created > 0
  /\ UNCHANGED fuel
  /\ Settle(r, Started(Of(r)), Report("handler", r, None))

\* an exit that does not look at the other sessions
other_active_never(h) == FALSE

\* the loop over self._webserver.instances: another instance has a client
other_active(h) ==
  /\ \E sid \in Sids : h.instances[sid] = h.self
  /\ Cardinality(Sessions(h)) > 1
  /\ \E sid \in Sessions(h) :
        h.instances[sid] # h.self
        /\ h.peer.websockets \cup h.peer.sse_queues # {}

\* asyncio.sleep(0.5) returns in the task that has slept the longest
Slept(h) ==
  [h EXCEPT !.handlers.asleep = @ - 1,
            !.handlers.stale = IF @ > 0 THEN @ - 1 ELSE 0]

\* an exit that does not check for a client again after the sleep
WokenBlind(h) ==
  IF other_active(h)
  THEN Slept(h)
  ELSE [Slept(h) EXCEPT
          !.exited = IF h.browser_cleanup THEN "cleanup" ELSE "exit"]

\* App._handle_disconnect after its sleep: a client came back, or another
\* session has one, or the hook runs and the process exits
Woken(h) ==
  IF Active(h) # {} \/ other_active(h)
  THEN Slept(h)
  ELSE [Slept(h) EXCEPT
          !.exited = IF h.browser_cleanup THEN "cleanup" ELSE "exit"]
Wake(r) ==
  /\ exited = "no"
  /\ Of(r).handlers.asleep > 0
  /\ UNCHANGED fuel
  /\ Settle(r, Woken(Of(r)), Report("wake", r, None))

\* A program that queues script calls on the tags of its tree while browsers
\* connect and passes run.
ScriptItems == {1, pFresh, pRaise}
InitScripts == Start /\ fuel = MaxScriptOps
NextScripts ==
  \/ \E p \in Holders, i \in ScriptItems : Add(p, i)
  \/ \E p \in Holders, i \in ScriptItems : Remove(p, i)
  \/ \E n \in Nodes : CallJs(n)
  \/ \E t \in Transports : Connect(t)
  \/ BroadcastUpdates
SpecScripts == InitScripts /\ [][NextScripts]_vars

\* application code: tag._onclick = callback
bind(h, n, k) == [set_event(h, n, "click") EXCEPT !.callbacks[n] = k]
Bind(n, k) ==
  /\ fuel > 0
  /\ fuel' = fuel - 1
  /\ Commit(bind(Heap, n, k), Report("bind", n, None))

\* the finally block of App._handle_websocket and App._handle_sse: the
\* transport leaves its set; a websocket whose receive loop is inside
\* handle_event cannot notice a disconnection
\* a handler that ends without creating the _handle_disconnect task
DetachedOnly(h, t) ==
  [h EXCEPT !.websockets = @ \ {t}, !.sse_queues = @ \ {t},
            !.broken = @ \ {t},
            !.handlers.stale = h.handlers.asleep]

Detached(h, t) ==
  [h EXCEPT !.websockets = @ \ {t}, !.sse_queues = @ \ {t},
            !.broken = @ \ {t},
            !.handlers.stale = h.handlers.asleep,
            !.handlers.created = @ + 1]  \* create_task(_handle_disconnect())
\* a disconnection that cancels the callback in progress
ClosingCancels(h, t) ==
  /\ fuel > 0 /\ h.exited = "no"
  /\ t \in Served(h)
  /\ fuel' = fuel - 1
  /\ Commit([Detached(h, t) EXCEPT !.task.pc = "idle",
                                    !.task.outcome = "cancelled"],
            Report("disconnect", h.self, None))

Closing(h, t) ==
  /\ fuel > 0 /\ h.exited = "no"
  /\ t \in Served(h)
  /\ h.task.pc = "run" => t # h.task.ws
  /\ fuel' = fuel - 1
  /\ Commit(Detached(h, t), Report("disconnect", h.self, None))
Disconnect(t) == Closing(Heap, t)
Close(r, t) == Closing(Of(r), t)

\* target_tag._GTag__events.get(event_name)
Bound(h, n) == IF "click" \in h.events[n] THEN h.callbacks[n] ELSE Unset

\* App.handle_event is entered with msg = {id, event: "click", data:
\* {callback_id}} and the websocket the message came from, or None
Began(h, n, cid, w) ==
  [h EXCEPT !.task = [pc |-> "run", target |-> n, callback |-> Bound(h, n),
                      callback_id |-> cid, ws |-> w, steps |-> 0,
                      passes |-> 0, outcome |-> "none",
                      base |-> [t \in Transports |-> Len(h.sent[t])],
                      count |-> @.count + 1, errors |-> @.errors]]
Ended(h, outcome) == [h EXCEPT !.task.pc = "idle", !.task.outcome = outcome]

\* a handler that gives every broadcast the callback_id of the event
HandledTagged(st, result, cid, pc, outcome) ==
  Commit([Pushed(st, result, st.h.task.callback_id)
            EXCEPT !.task.pc = pc, !.task.outcome = outcome,
                   !.task.passes = @ + 1],
         [Outcome("handle", st.h, st.updates, st.js) EXCEPT !.cid = cid])

\* await self.broadcast_updates(result, callback_id) inside handle_event
Handled(st, result, cid, pc, outcome) ==
  \E s \in {st} :
    Commit([Pushed(s, result, cid) EXCEPT !.task.pc = pc,
                                          !.task.outcome = outcome,
                                          !.task.passes = @ + 1],
           [Outcome("handle", s.h, s.updates, s.js) EXCEPT !.cid = cid])
Collect(h) ==
  collect_updates([h |-> h, updates |-> NoUpdates, js |-> <<>>], h.self)

\* a handler that sends the error message to every client
ReportedToAll(h, m) == Broadcast(h, m)

\* the except branch of handle_event: the error message goes to the
\* websocket of the event, or to every SSE queue when there is none
Reported(h, m) ==
  IF h.task.ws # Unset
  THEN Send(h, h.task.ws, m)
  ELSE [h EXCEPT !.sent = [t \in Transports |->
                             IF t \in h.sse_queues
                             THEN Append(@[t], m) ELSE @[t]]]

\* a handler that answers a failed callback with an update message
FailedAsUpdate(h) ==
  Commit([Broadcast(h, UpdateMsg([updates |-> NoUpdates, js |-> <<>>],
                                 None, h.task.callback_id))
            EXCEPT !.task.pc = "idle", !.task.outcome = "error",
                   !.task.errors = @ + 1],
         Report("handle", h.task.target, None))
Failed(h) ==
  Commit([Reported(h, ErrorMsg(h, h.task.callback_id, "ValueError"))
            EXCEPT !.task.pc = "idle", !.task.outcome = "error",
                   !.task.errors = @ + 1],
         Report("handle", h.task.target, None))

\* a result sent as the callback returned it
SanitizedNot(res) == res

\* if isinstance(res, GTag): res = True
Sanitized(res) == IF res \in Nodes THEN True ELSE res

\* the code of a callback up to its next yield or to its end; like the
\* callbacks of the tests it queues a script call
Segment(h) == call_js(h, h.task.target)
Yielded(h) == [Segment(h) EXCEPT !.task.steps = @ + 1]

\* handle_event from the call of the callback, or from the resumption of
\* the generator, up to the end of the broadcast that follows
Advance(h, k) ==
  CASE k \in {"gen", "agen"} /\ h.task.steps < GenYields ->
         Handled(Collect(Yielded(h)), None, None, "run", "none")
    [] k = "gen" /\ h.task.steps = GenYields ->
         Handled(Collect(Segment(h)), Result, h.task.callback_id,
                 "idle", "done")
    [] k = "agen" /\ h.task.steps = GenYields ->
         Handled(Collect(Segment(h)), None, h.task.callback_id,
                 "idle", "done")
    [] k = "genraise" /\ h.task.steps = 0 ->
         Handled(Collect(Yielded(h)), None, None, "run", "none")
    [] k = "genraise" /\ h.task.steps = 1 -> Failed(Segment(h))
    [] k = "value" ->
         Handled(Collect(Segment(h)), Result, h.task.callback_id,
                 "idle", "done")
    [] k = "node" ->
         Handled(Collect(Segment(h)), Sanitized(h.task.target),
                 h.task.callback_id, "idle", "done")
    [] k = "raise" -> Failed(Segment(h))

\* a handler that answers nothing when the target has no callback
handle_event_unanswered(h, n) ==
  IF n \notin Reach(h, h.self)
  THEN Commit(Ended(h, "dropped"), Report("handle", n, None))
  ELSE IF h.task.callback = Unset
  THEN Commit(Ended(h, "unbound"), Report("handle", n, None))
  ELSE Advance(h, h.task.callback)

\* App.handle_event up to its first suspension: the target is looked up
\* with find_tag; an unknown id ends the call, an event without callback
\* runs one broadcast
handle_event(h, n) ==
  IF n \notin Reach(h, h.self)
  THEN Commit(Ended(h, "dropped"), Report("handle", n, None))
  ELSE IF h.task.callback = Unset
  THEN Handled(Collect(h), None, h.task.callback_id, "idle", "unbound")
  ELSE Advance(h, h.task.callback)

\* a message arrives on a websocket, or through POST /event (w unset)
Eventing(h, n, cid, w) ==
  /\ fuel > 0
  /\ h.task.pc = "idle"
  /\ w \in h.websockets \cup {Unset}
  /\ fuel' = fuel - 1
  /\ handle_event(Began(h, n, cid, w), n)
Event(n, cid, w) == Eventing(Heap, n, cid, w)
\* the same for the instance r
EventOf(r, n, cid, w) == Eventing(Of(r), n, cid, w)

\* a message arrives on another websocket, or through POST /event, while
\* a handle_event call is suspended: nothing holds the new call back; the
\* event names a tag of the tree whose callback returns without suspending
Overlap(n, cid, w) ==
  /\ fuel > 0
  /\ task.pc = "run"
  /\ w \in (websockets \ {task.ws}) \cup {Unset}
  /\ n \in Reach(Heap, App)
  /\ Bound(Heap, n) \in {"value", "node", "raise"}
  /\ fuel' = fuel - 1
  /\ handle_event(Began([Heap EXCEPT !.nested = TRUE], n, cid, w), n)

\* the generator of the event in progress is resumed
Resume ==
  /\ task.pc = "run"
  /\ UNCHANGED fuel
  /\ Advance(Heap, task.callback)

\* A program with bound callbacks, browsers that connect, and events.
EventTags == {App, 1}          \* the ids inbound events name
EventItems == {1, pRaise}
InitEvents == Start /\ fuel = MaxEventOps
NextEvents ==
  \/ \E i \in EventItems : Add(App, i)
  \/ \E i \in EventItems : Remove(App, i)
  \/ \E k \in Callbacks : Bind(App, k)
  \/ \E t \in Transports : Connect(t)
  \/ \E t \in Transports : Disconnect(t)
  \/ \E n \in EventTags, cid \in Cids, w \in Websockets \cup {Unset} :
       Event(n, cid, w)
  \/ Resume
  \/ BroadcastUpdates
SpecEvents == InitEvents /\ [][NextEvents]_vars

\* Events that expect an answer: every kind of callback or none, a render
\* that raises or not, a websocket or POST /event with an SSE stream.
AnswerTransports == {"ws1", "sse1"}
InitAnswer == Start /\ fuel = MaxAnswerOps
NextAnswer ==
  \/ Add(App, pRaise)
  \/ \E k \in Callbacks : Bind(App, k)
  \/ \E t \in AnswerTransports : Connect(t)
  \/ \E t \in AnswerTransports : Disconnect(t)
  \/ \E cid \in Cids, w \in {"ws1", Unset} : Event(App, cid, w)
  \/ Resume
SpecAnswer == InitAnswer /\ [][NextAnswer]_vars
\* the event loop resumes a handle_event task that is suspended at a yield
LiveAnswer == SpecAnswer /\ WF_vars(Resume)

\* A program whose tree holds a producer that raises below a clean root,
\* with browsers connected and events without callback.
AbortEdits == {<<App, 2>>, <<App, 1>>, <<1, pRaise>>}
InitAbort == Start /\ fuel = MaxAbortOps
NextAbort ==
  \/ \E e \in AbortEdits : Add(e[1], e[2])
  \/ CallJs(2)
  \/ \E t \in {"ws1", "sse1"} : Connect(t)
  \/ \E cid \in Cids : Event(App, cid, Unset)
SpecAbort == InitAbort /\ [][NextAbort]_vars

\* application code: app.debug = b
SetDebug(b) ==
  /\ fuel > 0
  /\ fuel' = fuel - 1
  /\ Commit([Heap EXCEPT !.debug = b], Report("debug", None, None))

\* App._render_page: the body is the rendered App, or, when the render
\* raised, the traceback in debug mode and the generic text otherwise
PageBody(h) ==
  IF h.exc THEN (IF h.debug THEN "TypeError" ELSE Generic) ELSE "html"
\* self.sent_statics.clear(); ...; self.sent_statics.update(all_statics)
Inlined(h, all) == [h EXCEPT !.sent_statics = Range(all)]
Paged(r) ==
  Commit(Inlined(Caught(r.h), collect_statics(r.h, r.h.self, <<>>)),
         [Outcome("page", r.h, (r.h.self :> r.out), <<>>)
            EXCEPT !.body = PageBody(r.h),
                   !.statics = collect_statics(r.h, r.h.self, <<>>)])
RenderPage ==
  /\ UNCHANGED fuel
  /\ Paged(render_tag(Heap, App))

\* A program whose callback and whose producer raise, in debug mode or not.
InitDebug == Start /\ fuel = MaxDebugOps
NextDebug ==
  \/ \E b \in BOOLEAN : SetDebug(b)
  \/ Add(App, pRaise)
  \/ Bind(App, "raise")
  \/ \E t \in {"ws1", "sse1"} : Connect(t)
  \/ \E w \in {"ws1", Unset} : Event(App, 1, w)
  \/ BroadcastUpdates
  \/ RenderPage
SpecDebug == InitDebug /\ [][NextDebug]_vars

\* a handler that stores the value through GTag.__setattr__
synced_dirty(h, n, v) ==
  [h EXCEPT !.attrs[n].value = v, !.dirty[n] = TRUE]

\* handle_event, "value" in msg["data"]: the value is written into the
\* target's attribute dict directly
synced(h, n, v) == [h EXCEPT !.attrs[n].value = v]

\* handle_event for a message whose data holds a value: the target is
\* looked up first, the value is stored, then the event is dispatched
handle_input(h, n, v) ==
  IF n \in Reach(h, h.self)
  THEN handle_event(synced(h, n, v), n)
  ELSE handle_event(h, n)

\* the browser reports the value typed into an element
Input(n, v, cid, w) ==
  /\ fuel > 0
  /\ task.pc = "idle"
  /\ w \in websockets \cup {Unset}
  /\ fuel' = fuel - 1
  /\ handle_input(Began(Heap, n, cid, w), n, v)

\* A form: an input element in the tree, edits, and browsers typing.
InitInput == Start /\ fuel = MaxInputOps
NextInput ==
  \/ \E i \in AppTags : Add(App, i)
  \/ \E n \in AppTags : SetAttr(n, Text)
  \/ Bind(2, "value")
  \/ \E t \in {"ws1", "sse1"} : Connect(t)
  \/ \E n \in AppTags, v \in Values, w \in {"ws1", Unset} :
       Input(n, v, None, w)
  \/ BroadcastUpdates
SpecInput == InitInput /\ [][NextInput]_vars

\* the peer of a websocket is gone and the receive loop has not noticed:
\* every later send_text on it raises
Die(w) ==
  /\ fuel > 0
  /\ w \in websockets \ broken
  /\ task.pc = "run" => w # task.ws
  /\ fuel' = fuel - 1
  /\ Commit([Heap EXCEPT !.broken = @ \cup {w}], Report("die", None, None))

\* Browsers that come and go while the program broadcasts.
InitPrune == Start /\ fuel = MaxPruneOps
NextPrune ==
  \/ \E t \in Transports : Connect(t)
  \/ \E t \in Transports : Disconnect(t)
  \/ \E w \in Websockets : Die(w)
  \/ CallJs(App)
  \/ Add(App, pRaise)
  \/ BroadcastUpdates
SpecPrune == InitPrune /\ [][NextPrune]_vars

\* application code: tag.statics = [...]
SetStatics(n, s) ==
  /\ fuel > 0
  /\ statics[n] # s
  /\ fuel' = fuel - 1
  /\ Commit([Heap EXCEPT !.statics[n] = s], Report("statics", n, None))

\* Components that bring their style sheets and scripts with them.
StaticLists == {<<"a.css">>, <<"a.css", "b.js">>}
InitStatics == Start /\ fuel = MaxStaticsOps
NextStatics ==
  \/ \E n \in AppTags, l \in StaticLists : SetStatics(n, l)
  \/ \E i \in AppTags : Add(App, i)
  \/ \E i \in AppTags : Remove(App, i)
  \/ Add(App, pRaise)
  \/ Connect("ws1")
  \/ RenderPage
  \/ BroadcastUpdates
SpecStatics == InitStatics /\ [][NextStatics]_vars

\* Two sessions of a WebApp given the class: each has its root, its tags, its
\* browsers.
InitIsolation == Start /\ fuel = MaxIsolationOps
NextIsolation ==
  \/ Serve("class")
  \/ \E r \in Roots : Add(r, pRaise)
  \/ \E r \in Roots : Bind(r, "raise")
  \/ \E r \in Roots : Calling(r, r)
  \/ \E r \in Roots : SetStatics(r, <<"a.css">>)
  \/ \E sid \in Sids, t \in {"ws1", "sse1"} : Open(sid, t)
  \/ \E r \in Roots, w \in {"ws1", Unset} : EventOf(r, r, 1, w)
  \/ \E r \in Roots : PassOf(r)
SpecIsolation == InitIsolation /\ [][NextIsolation]_vars

\* Events that arrive from two tabs and through POST /event.
InitOverlap == Start /\ fuel = MaxOverlapOps
NextOverlap ==
  \/ Add(App, 1)
  \/ Bind(App, "gen")
  \/ Bind(1, "value")
  \/ \E t \in {"ws1", "ws2"} : Connect(t)
  \/ \E n \in {App, 1}, w \in {"ws1", "ws2", Unset} : Event(n, 1, w)
  \/ \E n \in {App, 1}, w \in {"ws1", "ws2", Unset} : Overlap(n, 1, w)
  \/ Resume
SpecOverlap == InitOverlap /\ [][NextOverlap]_vars

\* Browsers that leave while a multi-step callback is in progress.
CancelTransports == {"ws1", "sse1"}
InitCancel == Start /\ fuel = MaxCancelOps
NextCancel ==
  \/ Bind(App, "gen")
  \/ \E t \in CancelTransports : Connect(t)
  \/ \E t \in CancelTransports : Disconnect(t)
  \/ \E cid \in Cids, w \in {"ws1", Unset} : Event(App, cid, w)
  \/ Resume
SpecCancel == InitCancel /\ [][NextCancel]_vars

\* Browsers of two sessions that come and go, under a runner that asks for
\* the exit with the last browser or under a plain WebApp.
ExitTransports == {"ws1", "sse1"}
InitExit == Start /\ fuel = MaxExitOps
NextExit ==
  \/ \E e \in {"class", "instance"}, k \in {"exit", "cleanup"} : Run(e, k)
  \/ \E e \in {"class", "instance"} : Serve(e)
  \/ \E sid \in Sids, t \in ExitTransports : Open(sid, t)
  \/ \E r \in Roots, t \in ExitTransports : Close(r, t)
  \/ \E r \in Roots : HandleDisconnect(r)
  \/ \E r \in Roots : Wake(r)
SpecExit == InitExit /\ [][NextExit]_vars
\* every task the event loop holds is eventually run
LiveExit ==
  /\ SpecExit
  /\ \A r \in Roots : WF_vars(HandleDisconnect(r)) /\ WF_vars(Wake(r))

TypeOK ==
  /\ \A n \in Nodes : parent[n] \in Nodes \cup {None}
  /\ current_eval \in Nodes \cup {None}
  /\ fuel \in Nat

\* ------------------------------------------------------------- properties
Reachable == Reach(Heap, App)
Keys == DOMAIN last.updates
PassDone == last.op = "collect" /\ ~last.raised

\* C1: after a reconciliation pass started at the root that returns without
\* raising, every tag reachable from the root through literal children or
\* through cached producer output has its dirty flag false.
C1_CleanAfterPass ==
  PassDone => \A n \in Reachable : ~dirty[n]

\* a pass that rendered the root and a tag a producer had just built
C1_Witness ==
  /\ PassDone
  /\ App \in Keys
  /\ \E f \in FreshTags : f \in Reachable /\ f \in Keys /\ ~dirty[f]

\* tags rendered by the pass: a key or a literal descendant of a key
Covered(n) == \E k \in Keys : n \in LitReach(Heap, k)
\* the tags that were reachable and dirty when the operation started
DirtyAtStart == last.dirty0 \cap last.reach0

\* C2 (as stated): for every pass the key set of the update map equals the
\* set of reachable tags whose dirty flag was true when the pass started, a
\* reachable tag that was clean is never a key and every key is clean after.
C2_KeysEqualDirty ==
  PassDone => /\ Keys = DirtyAtStart
              /\ \A k \in Keys : ~dirty[k]

\* C2 (amended): every key of a completed pass is a tag that was dirty when
\* the pass started or a tag a producer built during the pass; a tag that
\* was clean at the start is never a key; every tag that was reachable and
\* dirty at the start and is still reachable is a key or a literal
\* descendant of a key; every key is clean after the pass.
C2_KeysCoverDirty ==
  PassDone => /\ Keys \subseteq last.dirty0 \cup last.born
              /\ \A n \in DirtyAtStart \cap Reachable : Covered(n)
              /\ \A k \in Keys : ~dirty[k]

\* a pass whose map has a key with a dirty literal descendant that is no
\* key, and a key built by a producer during the pass
C2_Witness ==
  /\ PassDone
  /\ \E n \in DirtyAtStart \ Keys : Covered(n)
  /\ Keys \cap last.born # {}

\* C3: when a tag and one of its literal descendants are both dirty at the
\* start of a pass, the descendant is no key of the update map, and no key
\* is a literal descendant of another key.
C3_NoNestedKeys ==
  PassDone =>
    /\ \A d \in DirtyAtStart :
         (\E a \in DirtyAtStart \ {d} : d \in LitReach(Heap, a)) => d \notin Keys
    /\ \A a \in Keys : \A d \in Keys \ {a} : d \notin LitReach(Heap, a)

\* operations that edit the attributes, the bindings or the children of
\* the tag they are called on
EditOps == {"attr", "event", "add", "remove", "clear"}
ClassOps == {"add_class", "remove_class", "toggle_class"}
Raised(n) == ~dirty[n] /\ dirty'[n]
\* this step sets an attribute, binds an event, changes the class list or
\* edits the child list of n
Edited(n) ==
  \/ last'.op \in EditOps /\ last'.node = n
  \/ last'.op \in ClassOps /\ last'.node = n
       /\ attrs'[n].class # attrs[n].class
  \/ last'.op = "add" /\ childs'[n] # childs[n]
\* this step assigns the cell a different value, or notifies, while n is a
\* registered observer
Marked(n) ==
  \/ last'.op = "set" /\ value' # value /\ n \in observers
  \/ last'.op = "notify" /\ n \in observers

\* C4 (as stated): the flag of a rendered tag becomes true again if and
\* only if an attribute is set, the class list is changed by a helper, an
\* event is bound or the child list is edited (add, remove, clear) on that
\* tag.
C4_DirtyIffEdited ==
  [][\A n \in Holders : Raised(n) <=> ~dirty[n] /\ Edited(n)]_vars

\* C4 (amended): the flag of a rendered tag becomes true again if and only
\* if one of those edits is made on that tag, or the tag is a registered
\* observer of a cell that is assigned a different value or notified.
C4_DirtyIffEditedOrMarked ==
  [][\A n \in Holders :
       Raised(n) <=> ~dirty[n] /\ (Edited(n) \/ Marked(n))]_vars

\* a write to the cell has just set the flag of a clean observer
C4_Witness ==
  /\ last.op = "set"
  /\ \E n \in Holders \cap observers : n \notin last.dirty0 /\ dirty[n]

\* C5: the dirty flag of a tag changes from true to false only by a render
\* of that tag that completes; when the render raises the flag is still true.
C5_ClearedByCompletedRender ==
  [][\A n \in {App} \cup AppTags :
       dirty[n] /\ ~dirty'[n] =>
         /\ last'.op \in {"initial", "collect"}
         /\ ~last'.raised]_vars

\* the flags after a write or a notify: those set before, and the observers
FlagsWith(obs) == [n \in Nodes |-> dirty[n] \/ n \in obs]
\* a write of a different value marks exactly the observers, a write of an
\* equal value marks nobody, notify marks every observer
WriteMarks ==
  /\ last'.op = "set" /\ value' # value => dirty' = FlagsWith(observers)
  /\ last'.op = "set" /\ value' = value => dirty' = dirty
  /\ last'.op = "notify" => dirty' = FlagsWith(observers)
\* the observers a change of the cell has just marked
JustMarked ==
  IF last.op \in {"set", "notify"}
  THEN {n \in observers : dirty[n] /\ n \notin last.dirty0}
  ELSE {}
\* this step is a pass that completes
PassStep == last'.op = "collect" /\ ~last'.raised

C7_ReadRegistersEvaluator ==
  [][/\ \A r \in reads' : r.reg = r.top
     /\ observers' \ observers \subseteq {r.reg : r \in reads'}
     /\ {r.reg : r \in reads'} \cap Holders \subseteq observers'
     /\ last'.op = "read" =>
          reads' = {[reg |-> None, top |-> None]} /\ observers' = observers
     /\ current_eval' = None]_vars

\* a render in which the root evaluated a producer that rendered a span
\* reading the cell, then read the cell itself, before a producer raised
C7_Witness ==
  /\ last.op \in {"initial", "collect"} /\ last.raised
  /\ [reg |-> App, top |-> App] \in reads
  /\ \E f \in FreshTags : [reg |-> f, top |-> f] \in reads
  /\ App \in observers /\ current_eval = None

\* number of times c occurs in the sequence s
Occ(s, c) == Cardinality({i \in 1..Len(s) : s[i] = c})
\* the tags holding c, in their children or in their producer cache
HoldersOf(c) == {n \in Nodes : c \in Range(Held(Heap, n))}

\* C8: every tag is held at most once by at most one holder (children list
\* or producer cache), and its parent reference is that holder, or None
\* when nothing holds it.
C8_SingleHolder ==
  \A c \in Nodes \ {App} :
    /\ Cardinality(HoldersOf(c)) <= 1
    /\ \A n \in HoldersOf(c) : Occ(Held(Heap, n), c) = 1 /\ parent[c] = n
    /\ HoldersOf(c) = {} => parent[c] = None

\* C9: add(c) on p2 while c is a literal child of another tag p1 removes c
\* from p1's children, leaves c once in p2's children with c.parent = p2
\* and marks p1 and p2 dirty; add(c) on a tag already holding c leaves one
\* occurrence of c in its children.
C9_AddMoves ==
  [][last'.op = "add" /\ IsTag(last'.item) =>
       /\ \A p1 \in Nodes \ {last'.node} :
            last'.item \in Range(childs[p1]) =>
              /\ last'.item \notin Range(childs'[p1])
              /\ Occ(childs'[last'.node], last'.item) = 1
              /\ parent'[last'.item] = last'.node
              /\ dirty'[p1] /\ dirty'[last'.node]
       /\ last'.item \in Range(childs[last'.node]) =>
            Occ(childs'[last'.node], last'.item) = 1]_vars

\* C10: for every tag, the number of on_mount calls minus the number of
\* on_unmount calls is 1 while it is in the tree under the App root and 0
\* while it is not.
C10_MountsBalanced ==
  \A n \in AppTags :
    mounts[n] - unmounts[n] = IF n \in LitReach(Heap, App) THEN 1 ELSE 0

\* C11: a tag reachable from the App root only as the output of a producer
\* has received on_mount once and no on_unmount while it is reachable, and
\* it never has more on_unmount calls than on_mount calls.
C11_ProducedTagsMounted ==
  \A f \in FreshTags :
    /\ f \in Reachable => mounts[f] = 1 /\ unmounts[f] = 0
    /\ unmounts[f] <= mounts[f]

\* C12: once a session exists, the root has received on_mount exactly once
\* and every tag of its tree has one more on_mount than on_unmount: session
\* creation does not mount the tags attached at construction again, and a
\* further session id reusing the instance does not mount it again.
C12_SessionMountsOnce ==
  Sessions(Heap) # {} =>
    /\ mounts[App] = 1
    /\ \A n \in AppTags \cap LitReach(Heap, App) : mounts[n] - unmounts[n] = 1

\* the script calls of the last collection, for a broadcast or for the
\* initial message of a connection
Collection == last.op \in {"collect", "connect"}

\* C13: the js list of a collection keeps the order in which the fragments
\* were queued with call_js, on one tag or on different tags of the tree.
C13_QueueingOrder ==
  Collection =>
    \A i, j \in 1..Len(last.js) : i < j => last.js[i] < last.js[j]

\* the fragments waiting on the tags reachable from the root
Pending(n) == {js_calls[n][i] : i \in 1..Len(js_calls[n])}
Waiting == UNION {Pending(n) : n \in Reachable}

\* C14: a collection that returns normally puts every fragment waiting on a
\* tag reachable from the root into its js list, puts nothing else there,
\* and leaves the pending list of every reachable tag empty, so that no
\* fragment is emitted by a later collection.
C14_OneShot ==
  [][(last'.op \in {"collect", "connect"} /\ ~last'.raised) =>
       /\ Waiting = {last'.js[i] : i \in 1..Len(last'.js)}
       /\ \A n \in Reach(Heap, App)' : js_calls'[n] = <<>>]_vars

\* the transports registered with the App
Clients == websockets \cup sse_queues
\* a broadcast pass: broadcast_updates called by the program or by
\* handle_event
Pass == last.op \in {"collect", "handle"}
IsErrorFor(m, cid) ==
  /\ m.action = "error"
  /\ m.callback_id = cid
  /\ m.result = None
  /\ m.keys = {}
  /\ m.js = <<>>

\* C15: when a render raises during broadcast_updates, every attached
\* websocket and SSE queue receives exactly one message, an error message
\* with the callback_id of the pass and result null, which carries no HTML
\* and no script call; nothing is sent to anyone else.
C15_ErrorInsteadOfUpdate ==
  [][(Pass' /\ last'.raised) =>
       \A t \in Transports :
         IF t \in Clients
         THEN /\ Len(sent'[t]) = Len(sent[t]) + 1
              /\ SubSeq(sent'[t], 1, Len(sent[t])) = sent[t]
              /\ IsErrorFor(sent'[t][Len(sent'[t])], last'.cid)
         ELSE sent'[t] = sent[t]]_vars

\* a pass with a callback_id failed after it had taken a script call from a
\* tag visited earlier; a websocket and an SSE queue got the error message
C15_Witness ==
  /\ Pass /\ last.raised /\ last.cid = 1
  /\ queued > 0
  /\ \A n \in Nodes : js_calls[n] = <<>>
  /\ {"ws1", "sse1"} \subseteq Clients
  /\ \A t \in Clients :
       /\ sent[t] # <<>>
       /\ IsErrorFor(sent[t][Len(sent[t])], 1)
       /\ \A i \in 1..Len(sent[t]) : sent[t][i].js = <<>>

\* the handle_event call of the last step returned after its final
\* broadcast
Completed == last.op = "handle" /\ task.pc = "idle" /\ task.outcome = "done"
\* what the callback returned, as JSON: a node is replaced by true and an
\* async generator has no return value
Expected ==
  CASE task.callback \in {"value", "gen"} -> Result
    [] task.callback = "node" -> True
    [] OTHER -> None
LastSent(t) == sent[t][Len(sent[t])]
IsFinalUpdate(m) ==
  /\ m.action = "update"
  /\ m.callback_id = task.callback_id
  /\ m.result = Expected

Pushed1(t) == sent'[t][Len(sent'[t])]
OnePushed(t) ==
  /\ Len(sent'[t]) = Len(sent[t]) + 1
  /\ SubSeq(sent'[t], 1, Len(sent[t])) = sent[t]
StepsBefore == IF task.pc = "run" THEN task.steps ELSE 0

\* C17: a generator or async generator callback that yields GenYields times
\* makes handle_event run one intermediate broadcast after each yield and
\* one final broadcast after the last segment.  The broadcast of step i has
\* reached every client, with the script call step i queued, when the step
\* ends and so before step i+1 begins; it carries neither callback_id nor
\* result, which only the final broadcast carries.
C17_BroadcastPerYield ==
  [][(last'.op = "handle" /\ task'.callback \in {"gen", "agen"}) =>
       /\ task'.pc = "run" =>
            /\ task'.steps = StepsBefore + 1
            /\ task'.steps <= GenYields
            /\ task'.passes = task'.steps
            /\ \A t \in Clients :
                 /\ OnePushed(t)
                 /\ Pushed1(t).callback_id = None
                 /\ Pushed1(t).result = None
                 /\ ~last'.raised =>
                      /\ Pushed1(t).action = "update"
                      /\ \E i \in 1..Len(Pushed1(t).js) :
                           Pushed1(t).js[i] = queued'
       /\ task'.pc = "idle" =>
            /\ task'.outcome = "done"
            /\ task.steps = GenYields /\ task'.steps = GenYields
            /\ task'.passes = GenYields + 1
            /\ \A t \in Clients :
                 /\ OnePushed(t)
                 /\ Pushed1(t).callback_id = task'.callback_id
                 /\ (~last'.raised /\ task'.callback_id # None) =>
                      Pushed1(t).result = Expected']_vars

\* a generator ran to its end: two clients got two intermediate messages
\* with one script call each and then the message with the callback_id
C17_Witness ==
  /\ Completed /\ task.callback = "gen" /\ task.callback_id = 1
  /\ task.steps = GenYields /\ task.passes = GenYields + 1
  /\ \E t, u \in Clients :
       /\ t # u
       /\ Len(sent[t]) = task.base[t] + GenYields + 1
       /\ \A i \in 1..GenYields :
            /\ sent[t][task.base[t] + i].callback_id = None
            /\ Len(sent[t][task.base[t] + i].js) = 1
       /\ IsFinalUpdate(LastSent(t)) /\ IsFinalUpdate(LastSent(u))

\* the messages the transport t got since the event of the task arrived
Since(t) == SubSeq(sent[t], task.base[t] + 1, Len(sent[t]))
CarriesId(m) == m.action = "update" /\ m.callback_id # None
\* the handle_event call of the last step ended in its except branch
Errored == last.op = "handle" /\ task.pc = "idle" /\ task.outcome = "error"

\* C18: when a generator callback raises after its first yield, handle_event
\* has run exactly one step to a yield and exactly one intermediate
\* broadcast when it sends the error message; the websocket of the event got
\* that broadcast first and the error message last, no transport got an
\* update message with a callback_id, and the call does nothing afterwards.
C18_RaiseAfterYield ==
  /\ [](task.callback = "genraise" /\ Errored =>
          /\ task.steps = 1 /\ task.passes = 1
          /\ \A t \in Transports :
               \A i \in 1..Len(Since(t)) : ~CarriesId(Since(t)[i])
          /\ task.ws # Unset =>
               /\ Len(Since(task.ws)) >= 2
               /\ Since(task.ws)[1].callback_id = None
               /\ IsErrorFor(LastSent(task.ws), task.callback_id))
  /\ [][(task.callback = "genraise" /\ task.outcome = "error"
           /\ task'.count = task.count) => task' = task]_vars

\* the generator raised in its second segment: the websocket of the event
\* got the intermediate message and the error message, another client the
\* intermediate message only
C18_Witness ==
  /\ task.callback = "genraise" /\ Errored
  /\ task.callback_id = 1 /\ task.ws = "ws1"
  /\ Len(Since("ws1")) = 2
  /\ Since("ws1")[1].action = "update"
  /\ \E t \in Clients \ {"ws1"} :
       Len(Since(t)) = 1 /\ Since(t)[1].action = "update"

\* C19: when the callback of an event raises, the step sends one message,
\* an error message with the event's callback_id and result null: to the
\* websocket the event arrived on and to no other transport, or, for an
\* event that arrived through POST /event, to every SSE queue and to no
\* websocket.  No update message is sent, no client is dropped and the App
\* is ready for the next event.
C19_CallbackError ==
  [][(last'.op = "handle" /\ task'.outcome = "error"
        /\ task'.errors = task.errors + 1) =>
       /\ \A t \in Transports :
            IF \/ task'.ws # Unset /\ t = task'.ws
               \/ task'.ws = Unset /\ t \in sse_queues
            THEN OnePushed(t) /\ IsErrorFor(Pushed1(t), task'.callback_id)
            ELSE sent'[t] = sent[t]
       /\ websockets' = websockets /\ sse_queues' = sse_queues
       /\ task'.pc = "idle"]_vars

\* a callback raised for an event of a websocket, which got the error
\* message; the next event, sent through POST /event, was handled and its
\* error message did not go to the websocket
C19_Witness ==
  /\ Errored /\ task.count = 2 /\ task.errors = 2
  /\ task.ws = Unset
  /\ "ws1" \in Clients
  /\ Since("ws1") = <<>>
  /\ IsErrorFor(LastSent("ws1"), 1)

\* the error messages a step sent to the transport t
NewErrors(t) ==
  {sent'[t][i].traceback : i \in {j \in Len(sent[t]) + 1..Len(sent'[t]) :
                                    sent'[t][j].action = "error"}}

Dispatched == last.op = "handle" /\ task.outcome \in {"done", "unbound"}

\* C21: an event whose data holds a value stores the value in the value
\* attribute of the target and of no other tag, and does not set the
\* target's dirty flag: a target that was clean is clean afterwards and its
\* id is not a key of the broadcast that follows.
C21_ValueSyncKeepsClean ==
  [][(last'.op = "handle" /\ task'.outcome \in {"done", "unbound"}
        /\ task'.count = task.count + 1) =>
       /\ \A m \in Nodes \ {task'.target} :
            attrs'[m].value = attrs[m].value
       /\ ~dirty[task'.target] =>
            /\ ~dirty'[task'.target]
            /\ task'.target \notin DOMAIN last'.updates]_vars

\* the input element was clean when the browser sent the value typed into
\* it: the value is stored and the broadcast reports another tag only
C21_Witness ==
  /\ Dispatched /\ task.target = 2 /\ ~last.raised
  /\ 2 \notin last.dirty0
  /\ attrs[2].value = 1
  /\ DOMAIN last.updates = {1}
  /\ \E t \in Clients : LastSent(t).keys = {1}

\* the step ran broadcast_updates
PassesBefore == IF task.pc = "run" THEN task.passes ELSE 0
BroadcastStep ==
  \/ last'.op = "collect"
  \/ last'.op = "handle" /\ task'.passes = PassesBefore + 1
\* the pass found nothing to report and answers no callback
NothingToSend ==
  ~last.raised /\ DOMAIN last.updates = {} /\ last.js = <<>> /\ last.cid = None
\* the transports whose write succeeds
Writable == Clients \ broken

\* C22: a broadcast writes one and the same payload to every attached
\* websocket and SSE queue whose write succeeds, or writes nothing when
\* there is nothing to send; the websockets whose write raised are removed
\* from the set and nothing else is: the others got the payload and are
\* still attached.
C22_SamePayloadAndPrune ==
  [][BroadcastStep =>
       /\ \A t \in Transports \ Writable : sent'[t] = sent[t]
       /\ sse_queues' = sse_queues
       /\ \/ /\ NothingToSend'
             /\ \A t \in Transports : sent'[t] = sent[t]
             /\ websockets' = websockets
          \/ /\ ~NothingToSend'
             /\ \A t, u \in Writable :
                  OnePushed(t) /\ Pushed1(t) = Pushed1(u)
             /\ websockets' = websockets \ broken]_vars

\* a broadcast met a websocket whose write raises: it is gone from the set,
\* the other websocket and the SSE queue got the same payload and are still
\* attached
C22_Witness ==
  /\ last.op = "collect" /\ ~last.raised /\ last.js # <<>>
  /\ "ws1" \in broken /\ "ws1" \notin websockets
  /\ "ws2" \in websockets /\ "sse1" \in sse_queues
  /\ LastSent("ws2") = LastSent("sse1")
  /\ LastSent("ws2").js = last.js
  /\ \A i \in 1..Len(sent["ws1"]) : sent["ws1"][i].js = <<>>

\* the App instances of the WebApp other than r
Others(r) == {instances[sid] : sid \in Sessions(Heap)} \ {r}
Exiting == exited = "no" /\ exited' # "no"

\* C23: os._exit is called only by a session whose exit_on_disconnect is
\* true and that has no websocket and no SSE queue, while no other instance
\* of the WebApp has a transport; a session whose exit_on_disconnect is
\* false never calls it.
C23_ExitOnlyWhenAlone ==
  [][Exiting =>
       /\ Of(last'.node).exit_on_disconnect
       /\ Active(Of(last'.node)) = {}
       /\ Others(last'.node) # {} => Active(Swap(Of(last'.node))) = {}]_vars

\* the process exited under a WebApp with two sessions that both had a
\* browser
C23_Witness ==
  /\ exited # "no" /\ tag_entity = "class"
  /\ Sessions(Heap) = Sids
  /\ sent["ws1"] # <<>> /\ sent["sse1"] # <<>>
  /\ Others(last.node) # {}

\* C24: a _handle_disconnect task that finds a transport attached to its
\* session when its sleep ends goes away without exiting, and no step taken
\* while a session has a transport attached exits the process.
AnyClient == Active(Heap) \cup Active(Swap(Heap)) # {}
Asleep(r) == Of(r).handlers.asleep
Created(r) == Of(r).handlers.created
C24_ReattachAbandonsExit ==
  [][/\ AnyClient => exited' = "no"
     /\ \A r \in Roots :
          (last'.op = "wake" /\ last'.node = r /\ Active(Of(r)) # {}) =>
            /\ Asleep(r)' = Asleep(r) - 1
            /\ Created(r)' = Created(r)]_vars

\* the last browser left, another came during the sleep and is still there
\* when the sleep ends: the process runs on
C24_Witness ==
  /\ last.op = "wake" /\ last.node = App /\ exited = "no"
  /\ exit_on_disconnect /\ websockets = {"ws1"}
  /\ Len(sent["ws1"]) = 2
  /\ handlers = NoHandlers

\* every session has exit_on_disconnect on and the last transport of all has
\* just detached
LastDetach ==
  /\ last.op = "disconnect" /\ exited = "no"
  /\ Served(Heap) \cup Served(Swap(Heap)) = {}
  /\ \A sid \in Sessions(Heap) : Of(instances[sid]).exit_on_disconnect
\* os._exit was called, after the hook when the runner registered one
Exited == exited = (IF on_instance = "cleanup" THEN "cleanup" ELSE "exit")

\* C25: when every session has exit_on_disconnect on and the last transport
\* has detached, the process exits, after the cleanup hook if one is
\* registered, unless a transport attaches again.
C25_ExitsWhenAllGone == LastDetach ~> (Exited \/ AnyClient)

\* both sessions lost their browser and the process exited after the hook
C25_Witness ==
  /\ exited = "cleanup" /\ on_instance = "cleanup"
  /\ Sessions(Heap) = Sids /\ tag_entity = "class"
  /\ ~AnyClient
  /\ sent["ws1"] # <<>> /\ sent["sse1"] # <<>>
  /\ peer.exit_on_disconnect /\ exit_on_disconnect

\* the script calls queued on the tags of the tree of the root r
PendingJs(r) == UNION {Range(js_calls[n]) : n \in Reach(Heap, r)}
\* the step registered the transport t
Opens(t) == last'.op = "connect" /\ t \notin Clients /\ t \in Clients'

\* C26: the step that opens a transport writes to it, before anything else,
\* one update message keyed by the root id that carries every script call
\* pending on the tree at that time.
C26_InitialMessageFirst ==
  [][\A t \in Transports : Opens(t) =>
       /\ OnePushed(t)
       /\ Pushed1(t).action = "update"
       /\ Pushed1(t).keys = {App}
       /\ Range(Pushed1(t).js) = PendingJs(App)]_vars

\* C27: the end of a connection handler takes its transport, and no other,
\* out of the session's set and leaves the event in progress as it is; the
\* callback goes on, and the step that completes it runs its final
\* broadcast.
C27_DisconnectCancelsNothing ==
  [][/\ last'.op = "disconnect" =>
          /\ \E t \in Served(Heap) :
               /\ t \notin Clients'
               /\ Clients' = Clients \ {t}
          /\ task' = task
     /\ (task.pc = "run" /\ task'.pc = "idle" /\ task'.outcome = "done") =>
          /\ last'.op = "handle"
          /\ task'.passes = task.passes + 1
          /\ \A t \in Clients :
               /\ OnePushed(t)
               /\ Pushed1(t).action = "update" \/ last'.raised
               /\ Pushed1(t).callback_id = task.callback_id]_vars

\* the SSE stream ended after the first broadcast of a generator callback;
\* the callback went on to its end and the websocket got every broadcast
C27_Witness ==
  /\ task.pc = "idle" /\ task.outcome = "done" /\ task.callback = "gen"
  /\ task.callback_id = 1
  /\ websockets = {"ws1"} /\ sse_queues = {}
  /\ Len(sent["sse1"]) = 2 /\ Len(sent["ws1"]) = 2 + GenYields
  /\ LastSent("ws1").callback_id = 1 /\ LastSent("ws1").result = Result

\* C28: a callback is started only when no event of the session is in
\* progress: while a handle_event call is suspended at an await or between
\* two steps of its generator, no other event is dispatched.
C28_OneCallbackAtATime ==
  [][task'.count > task.count => task.pc = "idle"]_vars

\* the fragments the tags of the tree ask for
TreeStatics == Range(collect_statics(Heap, App, <<>>))
NoRepeat(q) == \A i, j \in 1..Len(q) : q[i] = q[j] => i = j

\* C30: a page render inlines the fragments of the tree and remembers
\* exactly those; a broadcast sends only fragments not remembered, each once,
\* and remembers them; when it succeeds no fragment of the tree is left
\* unsent; no other step touches what is remembered.  So a fragment inlined
\* or sent is not sent again before the next page render, and one that
\* appears later goes out in one update message.
C30_StaticsSentOnce ==
  [][/\ BroadcastStep =>
          /\ Range(last'.statics) \cap sent_statics = {}
          /\ NoRepeat(last'.statics)
          /\ sent_statics' = sent_statics \cup Range(last'.statics)
          /\ ~last'.raised => TreeStatics' \subseteq sent_statics'
          /\ \A t \in Writable : last'.statics # <<>> =>
               OnePushed(t) /\ Pushed1(t).statics = last'.statics
     /\ last'.op = "page" =>
          /\ Range(last'.statics) = TreeStatics'
          /\ sent_statics' = TreeStatics'
     /\ (~BroadcastStep /\ last'.op # "page") =>
          sent_statics' = sent_statics]_vars

\* a.css was inlined in the page; the component attached later brought
\* a.css and b.js, and the update message carried b.js alone
C30_Witness ==
  /\ last.op = "collect" /\ last.statics = <<"b.js">>
  /\ sent_statics = {"a.css", "b.js"}
  /\ Len(sent["ws1"]) = 2
  /\ sent["ws1"][1].statics = <<>>
  /\ sent["ws1"][2].statics = <<"b.js">>

\* the transports, the event in progress and the remembered fragments of
\* the instance r
TransportsOf(r) ==
  IF r = App THEN websockets \cup sse_queues
  ELSE peer.websockets \cup peer.sse_queues
TaskOf(r) == IF r = App THEN task ELSE peer.task
SentStaticsOf(r) == IF r = App THEN sent_statics ELSE peer.sent_statics
Other(r) == IF r = App THEN App2 ELSE App
\* the step is a connection, a pass or an event of the session of root r
StepOf(r) ==
  \/ last'.op \in {"collect", "connect"} /\ last'.node = r
  \/ last'.op = "handle" /\ TaskOf(r)' # TaskOf(r)

\* C29: a connection, a pass or an event of one session reports only ids of
\* its own tree, writes only to its own transports, whether it succeeds or
\* raises, and leaves the dirty flags, the pending script calls and the
\* remembered fragments of the other session as they were.
C29_SessionsIsolated ==
  [][\A r \in Roots : StepOf(r) =>
       /\ DOMAIN last'.updates \subseteq Reach(Heap, r)
       /\ \A t \in Transports :
            sent'[t] # sent[t] => t \in TransportsOf(r)'
       /\ \A t \in TransportsOf(Other(r)) : sent'[t] = sent[t]
       /\ \A n \in Reach(Heap, Other(r)) :
            dirty'[n] = dirty[n] /\ js_calls'[n] = js_calls[n]
       /\ SentStaticsOf(Other(r))' = SentStaticsOf(Other(r))
       /\ TransportsOf(Other(r))' = TransportsOf(Other(r))]_vars

\* both sessions have a browser and a dirty root; the pass of the second
\* session raised and only its own browser was told
C29_Witness ==
  /\ last.op = "collect" /\ last.node = App2 /\ last.raised
  /\ websockets = {"ws1"} /\ peer.sse_queues = {"sse1"}
  /\ dirty[App] /\ LastSent("sse1").action = "error"
  /\ Len(sent["ws1"]) = 1

\* C31: once a session id is in the registry its entry never changes and is
\* what _get_instance returns for it; with a class, two session ids have two
\* instances, with an instance every session id has that instance.
C31_RegistryStable ==
  [][/\ \A sid \in Sids : instances[sid] # None =>
          /\ instances'[sid] = instances[sid]
          /\ Resolved(Heap, sid)' = instances[sid]
     /\ last'.op = "session" => last'.node \in {instances'[sid] : sid \in Sids}
     /\ tag_entity' = "class" =>
          \A a, b \in Sessions(Heap)' : a # b => instances'[a] # instances'[b]
     /\ tag_entity' = "instance" =>
          \A a \in Sessions(Heap)' : instances'[a] = App]_vars

\* with a class, both session ids are registered and the first of them was
\* then looked up again
C31_Witness ==
  /\ tag_entity = "class"
  /\ instances["s1"] = App /\ instances["s2"] = App2
  /\ last.op = "session" /\ last.node = App

\* C32: no App instance is given to the on_instance hook more than once.
C32_HookOncePerInstance == \A r \in Roots : initialized[r] <= 1

\* C33: a caller of _get_instance gets the registered instance, and gets it
\* after the hook, the back-link and the mount notification; with a class,
\* the hook and the mount notification run once for the instance.
C33_FirstAccessAtomic ==
  /\ \A t \in Threads : calls[t].pc = "done" =>
       /\ calls[t].got = instances[calls[t].sid]
       /\ calls[t].ready
  /\ tag_entity = "class" =>
       \A r \in Roots : initialized[r] <= 1 /\ mounts[r] <= 1

\* the tokens of the HTML that the last operation produced
Emitted == UNION {Range(last.updates[n]) : n \in DOMAIN last.updates}

\* C34: in every HTML fragment produced (initial render or update), every
\* input, textarea or select element without an "input" event binding
\* carries the automatic oninput attribute.
C34_InputsAutoBound ==
  \A tok \in Emitted :
    /\ tok.k \in {"open", "void"}
    /\ TagName[tok.id] \in InputTags
    /\ "input" \notin tok.ev
    => tok.oninput

\* the tags met by following the parent references from n, n excluded
\* unless the references lead back to it
RECURSIVE Above(_, _)
Above(n, k) ==
  IF parent[n] = None \/ k = 0 THEN {}
  ELSE {parent[n]} \cup Above(parent[n], k - 1)

\* C35: no tag is its own ancestor, and no add is left running in its root
\* lookup.
C35_ParentAcyclic ==
  /\ \A n \in Nodes : n \notin Above(n, Cardinality(Nodes))
  /\ last.op # "hang"

\* the step sent the transport t a message whose fragments include the tag
\* n, as a key or under a key
Told(t, n) ==
  /\ Len(sent'[t]) > Len(sent[t])
  /\ Pushed1(t).keys \cap ({n} \cup Above(n, Cardinality(Nodes))) # {}

\* C36: the render made for a transport that attaches, or for a page load,
\* leaves every change the transports already attached have not been sent:
\* a tag of the tree that was dirty stays dirty, or its fragment goes to
\* each of them in the same step.
C36_AttachKeepsChanges ==
  [][last'.op \in {"connect", "page"} =>
       \A n \in Reach(Heap, App) : dirty[n] =>
          \/ dirty'[n]
          \/ \A t \in websockets \cup sse_queues : Told(t, n)]_vars

\* C37: once a pass and the assignments that ran beside it are over, every
\* tag the pass rendered shows the cell's value or is dirty.
C37_WriteNotLost ==
  rendering.pc = "done" /\ writing.pc # "notify" =>
    \A n \in Nodes : rendering.seen[n] # None /\ n \in Reach(Heap, App) =>
       rendering.seen[n] = value \/ dirty[n]

\* the number of messages the transport t was sent since the event began
\* that carry the event's callback_id
Answers(t) ==
  Cardinality({i \in (task.base[t] + 1)..Len(sent[t]) :
                 sent[t][i].callback_id = task.callback_id})
\* the transports the event came from: its websocket, or the SSE streams
\* for an event posted to /event
Origin ==
  IF task.ws # Unset THEN {task.ws} \cap websockets ELSE sse_queues
\* the step ends a handle_event call whose target was found
Answered ==
  /\ task'.pc = "idle" /\ task'.outcome # "dropped"
  /\ task.pc = "run" \/ task'.count = task.count + 1

\* C38: while the handler of an event that carries a callback_id runs, no
\* message carries the callback_id; when it ends, each transport the event
\* came from, if still attached, has been sent one message with the
\* callback_id, an update or an error; and a handler that is suspended
\* ends.
C38_OneAnswer ==
  /\ [](task.pc = "run" /\ task.callback_id # None =>
          \A t \in Transports : Answers(t) = 0)
  /\ [][Answered /\ task'.callback_id # None =>
          \A t \in Origin' :
             /\ Answers(t)' = 1
             /\ LastSent(t)'.callback_id = task'.callback_id
             /\ LastSent(t)'.action \in {"update", "error"}]_vars
  /\ (task.pc = "run" ~> task.pc = "idle")

\* a generator callback has run to its end for an event sent with a
\* callback_id over a websocket that is still attached
C38_Witness ==
  /\ task.pc = "idle" /\ task.callback = "gen" /\ task.outcome = "done"
  /\ task.callback_id = 1 /\ task.ws = "ws1" /\ "ws1" \in websockets
  /\ Answers("ws1") = 1

\* the tasks of the instance r that are in their sleep since before its
\* latest disconnection
Stale(r) == Of(r).handlers.stale

\* C39: the process exits only in a _handle_disconnect task whose sleep
\* began after the latest disconnection from its instance, that is, a full
\* sleep after that disconnection.
C39_ExitAfterFullGrace ==
  [][exited = "no" /\ exited' # "no" =>
       \A r \in Roots : last'.op = "wake" /\ last'.node = r => Stale(r) = 0]_vars

\* the tags the cache of n holds for the producer p
Yield(n, p) ==
  UNION {Range(rendered_callables[n][k][2]) :
           k \in {k \in DOMAIN rendered_callables[n] :
                    rendered_callables[n][k][1] = p}}

\* C40: once remove(p) has taken the last occurrence of the producer p out
\* of a node's children, the node's cache holds no tag for p, and the tags
\* p last yielded are not reachable from the root: they are not found, not
\* dispatched to and not traversed.
C40_RemovePurgesCache ==
  [][\A n \in Nodes, p \in Producers :
       last'.op = "remove" /\ last'.node = n /\ last'.item = p
       /\ p \notin Range(childs'[n])
         => /\ Yield(n, p)' = {}
            /\ Yield(n, p) \cap Reachable' = {}]_vars
====
